---- MODULE Spec2Model ----
(***************************************************************************)
(* rank-subdeps: a model of the dependency-graph aggregation engine of the *)
(* CLI (identity keys, the disk usage estimator, the outdated marker       *)
(* extractor, the subtree aggregator, the aggregate accumulator, the       *)
(* result comparator) and of the part of main that drives them.            *)
(***************************************************************************)
EXTENDS Integers, Sequences, FiniteSets, TLC

VARIABLES
  fs,                       \* the filesystem: path -> entry (lstat/readdir)
  pathSizeCache,            \* main's shared Map path -> bytes
  sizeCalls,                \* SpecSize: the getApproxPathSize calls made so far
  tree,                     \* the parsed `npm ls` tree
  topDepNames,              \* Object.keys(topDeps) of main, in order
  outdatedJson,             \* what runNpmOutdated returned
  lastUpdatedByPackage,     \* what collectLastUpdatedByPackage returned
  args,                     \* args.sort / args.direction
  pc,                       \* main's position
  outdatedMarkers,          \* main's outdatedMarkers
  outdatedCountsAvailable,  \* main's outdatedCountsAvailable
  results,                  \* main's results array
  statsLog,                 \* per loop iteration: what collectSubtreeStats did
  aggregateLog,             \* what collectAggregateApproxBytes did
  sample,                   \* SpecSort: the records handed to Array.sort
  sorted,                   \* SpecSort: sort mode, direction and sorted copy
  argv,                     \* process.argv
  nodeEnv,                  \* process.env.NODE_ENV
  execRunner,               \* how each npm command ends: command -> outcome
  execLog,                  \* the npm commands run so far
  auditJson,                \* what runNpmAudit returned
  auditMarkers,             \* what collectAuditMarkers returned
  auditStats,               \* the audit part of what collectSubtreeStats returned
  coreCall,                 \* a call of one core function, with its arguments
  coreOutcome,              \* how that call ended
  manifest,                 \* the package.json file of the project root
  ls,                       \* runNpmLs: its locals, its files, how it ended
  walk                      \* one traversal, loop iteration by loop iteration

vars == <<fs, pathSizeCache, sizeCalls, tree, topDepNames, outdatedJson,
          lastUpdatedByPackage, args, pc, outdatedMarkers,
          outdatedCountsAvailable, results, statsLog, aggregateLog,
          sample, sorted, argv, nodeEnv, execRunner, execLog,
          auditJson, auditMarkers, auditStats, coreCall, coreOutcome,
          manifest, ls, walk>>

ioVars == <<argv, nodeEnv, execRunner, execLog>>

auditVars == <<auditJson, auditMarkers, auditStats>>

coreVars == <<coreCall, coreOutcome>>

lsVars == <<manifest, ls>>

----------------------------------------------------------------------------
(* Bounds of the model.                                                    *)

\* largest byte length of one file
MaxBytes == 1
\* getApproxPathSize calls in one run of SpecSize
MaxCalls == 2
\* nodes of the `npm ls` tree below its root
NumNodes == 4
\* largest subdeps of a record handed to the comparator
MaxSubdeps == 1
\* largest approxBytes of a record handed to the comparator
MaxApprox == 2
\* most command line elements after the script name
MaxArgs == 3
\* most top-level names handed to collectLastUpdatedByPackage
MaxPackages == 2
MaxDepth == 2                       \* levels wrapped around a dataset leaf
MaxVulnerabilities == 2             \* entries of an audit report

----------------------------------------------------------------------------
(* Generic helpers.                                                        *)

Null == "null"                      \* JS null / undefined
NoPath == <<>>                      \* node.path absent (falsy)

EmptyMap == [x \in {} |-> 0]

Range(s) == {s[i] : i \in DOMAIN s}

RECURSIVE SumSeq(_)
SumSeq(s) == IF s = <<>> THEN 0 ELSE s[1] + SumSeq(Tail(s))

IsPrefix(p, q) == Len(p) <= Len(q) /\ SubSeq(q, 1, Len(p)) = p

Count(s, x) == Cardinality({i \in DOMAIN s : s[i] = x})

----------------------------------------------------------------------------
(* Identity keying.                                                        *)

\* const makeId = (name, version) => `${name}@${version || 'UNKNOWN'}`
makeId(name, version) ==
  name \o "@" \o (IF version = Null \/ version = "" THEN "UNKNOWN" ELSE version)

----------------------------------------------------------------------------
(* The filesystem seen by node:fs.  fs maps a path (a sequence of segments) *)
(* to [kind, size, ok, target]; a path outside DOMAIN fs does not exist.    *)
(* ok = FALSE: stat/lstat of a file throws, readdir of a directory throws.  *)

Fail == [kind |-> "fail", size |-> 0, ok |-> FALSE, target |-> <<>>]

File(n)  == [kind |-> "file",  size |-> n, ok |-> TRUE,  target |-> <<>>]
Dir      == [kind |-> "dir",   size |-> 0, ok |-> TRUE,  target |-> <<>>]
Link(t)  == [kind |-> "link",  size |-> 0, ok |-> TRUE,  target |-> t]
Other    == [kind |-> "other", size |-> 0, ok |-> TRUE,  target |-> <<>>]
NoStat   == [kind |-> "file",  size |-> 1, ok |-> FALSE, target |-> <<>>]
NoRead   == [kind |-> "dir",   size |-> 0, ok |-> FALSE, target |-> <<>>]

\* lstatSync(p): does not follow a link
lstatSync(f, p) ==
  IF p \notin DOMAIN f THEN Fail
  ELSE IF f[p].kind = "file" /\ ~f[p].ok THEN Fail
  ELSE f[p]

\* statSync(p): follows links
RECURSIVE Follow(_, _, _)
Follow(f, p, hops) ==
  IF p \notin DOMAIN f THEN Fail
  ELSE IF f[p].kind = "link"
         THEN IF hops = 0 THEN Fail ELSE Follow(f, f[p].target, hops - 1)
  ELSE IF f[p].kind = "file" /\ ~f[p].ok THEN Fail
  ELSE f[p]

statSync(f, p) == Follow(f, p, Cardinality(DOMAIN f))

\* readdirSync(p, {withFileTypes: true}): the paths of the entries of p; the
\* Dirent type of an entry q is f[q].kind
readdirSync(f, p) ==
  {q \in DOMAIN f : Len(q) = Len(p) + 1 /\ IsPrefix(p, q)}

RECURSIVE SetToSeq(_)
SetToSeq(S) ==
  IF S = {} THEN <<>>
  ELSE LET x == CHOOSE y \in S : TRUE IN <<x>> \o SetToSeq(S \ {x})

\* the stat whose size one directory entry adds to total (lines 223-237), Fail
\* when the entry adds nothing; a directory entry is pushed instead
\* a variant that sizes whatever a link resolves to
EntryOtherStatFollowingLinks(f, q) ==
  LET st == statSync(f, q) IN IF st.kind = "file" THEN st ELSE Fail

EntryOtherStat(f, q) ==
  \* else if (!entry.isSymbolicLink()) { statSync(entryPath).isFile() ... }
  IF f[q].kind = "link" THEN Fail
  ELSE LET st == statSync(f, q) IN IF st.kind = "file" THEN st ELSE Fail

EntryStat(f, q) ==
  IF f[q].kind = "dir" THEN Fail
  ELSE IF f[q].kind = "file" THEN statSync(f, q)
  ELSE EntryOtherStat(f, q)

\* the while loop of getApproxPathSize (lines 200-238).  added: the paths whose
\* size was added, one entry per addition; reads: the directories listed.
RECURSIVE Walk(_, _, _, _, _)
Walk(f, stack, total, added, reads) ==
  IF stack = <<>> THEN [total |-> total, added |-> added, reads |-> reads]
  ELSE
    LET curPath == stack[Len(stack)]
        rest    == SubSeq(stack, 1, Len(stack) - 1)
        stat    == lstatSync(f, curPath)
    IN
    IF stat.kind = "fail" THEN Walk(f, rest, total, added, reads)
    ELSE IF stat.kind = "link" THEN Walk(f, rest, total, added, reads)
    ELSE IF stat.kind = "file"
      THEN Walk(f, rest, total + stat.size, Append(added, curPath), reads)
    ELSE IF stat.kind # "dir" THEN Walk(f, rest, total, added, reads)
    ELSE IF ~stat.ok THEN Walk(f, rest, total, added, reads)
    ELSE
      LET entries == SetToSeq(readdirSync(f, curPath))
          dirs    == SelectSeq(entries, LAMBDA q : f[q].kind = "dir")
          paid    == SelectSeq(entries, LAMBDA q : EntryStat(f, q).kind # "fail")
          bytes   == SumSeq([i \in DOMAIN paid |-> EntryStat(f, paid[i]).size])
      IN Walk(f, rest \o dirs, total + bytes, added \o paid,
              Append(reads, curPath))

\* getApproxPathSize(path, pathSizeCache) (lines 192-242): the bytes returned,
\* the cache afterwards, and what the call did on the filesystem
\* a variant that takes a cached 0 for a miss: if (cached) return cached
CacheHitWhenNonZero(cache, path) == path \in DOMAIN cache /\ cache[path] # 0

CacheHit(cache, path) == path \in DOMAIN cache

\* return cached
\* a variant that adds nothing for a path sized before
CachedSizeZero(cache, path) == 0

CachedSize(cache, path) == cache[path]

getApproxPathSize(f, path, cache) ==
  IF path = NoPath
    THEN [size |-> 0, cache |-> cache, scanned |-> FALSE,
          added |-> <<>>, reads |-> <<>>]
  ELSE IF CacheHit(cache, path)
    THEN [size |-> CachedSize(cache, path), cache |-> cache, scanned |-> FALSE,
          added |-> <<>>, reads |-> <<>>]
  ELSE
    LET w == Walk(f, <<path>>, 0, <<>>, <<>>) IN
    [size |-> w.total, cache |-> (path :> w.total) @@ cache, scanned |-> TRUE,
     added |-> w.added, reads |-> w.reads]

----------------------------------------------------------------------------
(* JSON values as JSON.parse returns them.  A string that holds a path is   *)
(* kept as its segments (JPath), so that path.resolve can be computed.      *)

JUndef == [t |-> "undefined"]
JNull  == [t |-> "null"]
JStr(str) == [t |-> "string", s |-> str]
JPath(isAbs, segs) == [t |-> "string", abs |-> isAbs, p |-> segs]
JArr(items) == [t |-> "array", e |-> items]
JObj(entries) == [t |-> "object", e |-> entries]   \* <<key, value>> pairs

IsPathString(v) == v.t = "string" /\ "p" \in DOMAIN v

\* typeof v === 'string'
IsString(v) == v.t = "string"

\* v && typeof v === 'object'
IsObjectLike(v) == v.t \in {"object", "array"}

\* a non-empty string (truthy)
NonEmptyString(v) ==
  IsString(v) /\ (IF IsPathString(v) THEN v.p # <<>> ELSE v.s # "")

\* value[key] of an object: the last entry under that key, else undefined
Get(obj, key) ==
  LET hits == {i \in DOMAIN obj.e : obj.e[i][1] = key} IN
  IF hits = {} THEN JUndef
  ELSE obj.e[CHOOSE i \in hits : \A j \in hits : j <= i][2]

\* path.resolve: "." and ".." segments are folded away
RECURSIVE Normalize(_, _)
Normalize(done, todo) ==
  IF todo = <<>> THEN done
  ELSE IF todo[1] = "." THEN Normalize(done, Tail(todo))
  ELSE IF todo[1] = ".."
    THEN Normalize(IF done = <<>> THEN done
                   ELSE SubSeq(done, 1, Len(done) - 1), Tail(todo))
  ELSE Normalize(Append(done, todo[1]), Tail(todo))

\* resolve(root, location)
resolve2(root, location) ==
  IF location.abs THEN Normalize(<<>>, location.p)
  ELSE Normalize(<<>>, root \o location.p)

\* resolve(node.path): node.path is absolute
resolve1(path) == Normalize(<<>>, path)

----------------------------------------------------------------------------
(* The outdated marker extractor.                                           *)

NoMarkers == [paths |-> {}, ids |-> {}]

\* isEntry without its `wanted` and null `latest` alternatives
IsEntryWithLatest(value) ==
  /\ IsString(Get(value, "current"))
  /\ IsString(Get(value, "latest"))

\* isEntry (lines 285-287)
IsEntry(value) ==
  /\ IsString(Get(value, "current"))
  /\ \/ IsString(Get(value, "latest"))
     \/ IsString(Get(value, "wanted"))
     \/ Get(value, "latest") = JNull

\* what one entry adds (lines 289-295); keyHint is Null or a key
EntryMarkers(root, value, keyHint) ==
  LET nameV == Get(value, "name")
      name  == IF IsString(nameV) /\ ~IsPathString(nameV) THEN nameV.s
               ELSE keyHint
      loc   == Get(value, "location")
  IN [ids   |-> IF name # Null /\ name # ""
                  THEN {makeId(name, Get(value, "current").s)} ELSE {},
      paths |-> IF NonEmptyString(loc) /\ IsPathString(loc)
                  THEN {resolve2(root, loc)} ELSE {}]

\* visit(value, keyHint) (lines 277-300)
RECURSIVE visit(_, _, _)
visit(root, value, keyHint) ==
  IF ~IsObjectLike(value) THEN NoMarkers
  ELSE IF value.t = "array" THEN
    [paths |-> UNION {visit(root, value.e[i], Null).paths : i \in DOMAIN value.e},
     ids   |-> UNION {visit(root, value.e[i], Null).ids : i \in DOMAIN value.e}]
  ELSE
    LET own  == IF IsEntry(value) THEN EntryMarkers(root, value, keyHint)
                ELSE NoMarkers
        kids == {i \in DOMAIN value.e : IsObjectLike(value.e[i][2])}
    IN
    [paths |-> own.paths \cup
         UNION {visit(root, value.e[i][2], value.e[i][1]).paths : i \in kids},
     ids   |-> own.ids \cup
         UNION {visit(root, value.e[i][2], value.e[i][1]).ids : i \in kids}]

\* collectOutdatedMarkers(root, outdatedJson) (lines 272-304)
collectOutdatedMarkers(root, json) ==
  IF ~IsObjectLike(json) THEN NoMarkers ELSE visit(root, json, Null)

\* isOutdatedNode(name, node, outdatedMarkers) (lines 306-310); markers = Null
\* is the default argument
PathMatches(node, markers) ==
  node.path # NoPath /\ resolve1(node.path) \in markers.paths

isOutdatedNode(name, node, markers, hasMarkers) ==
  IF ~hasMarkers THEN FALSE
  ELSE IF PathMatches(node, markers) THEN TRUE
  ELSE makeId(name, node.version) \in markers.ids

----------------------------------------------------------------------------
(* The subtree aggregator and the aggregate accumulator.  A tree is         *)
(* [dependencies, nodes]: nodes maps a node to [version, path,              *)
(* dependencies], and dependencies is Object.entries: <<name, node>> pairs. *)

\* obj[name] of a dependencies object: the node, 0 when undefined
Lookup(deps, name) ==
  LET hits == {i \in DOMAIN deps : deps[i][1] = name} IN
  IF hits = {} THEN 0 ELSE deps[CHOOSE i \in hits : TRUE][2]

StartStats(cache) ==
  [seen |-> <<>>, outdatedSubdeps |-> 0, approxBytes |-> 0, cache |-> cache,
   expanded |-> <<>>, billed |-> <<>>, counted |-> <<>>, scans |-> <<>>,
   visited |-> <<>>]

\* a variant that never finds a key in seen
AlreadySeenNever(seen, id) == FALSE

\* if (seen.has(id)) continue
AlreadySeen(seen, id) == id \in Range(seen)

\* depth > 0 && isOutdatedNode(curName, cur, outdatedMarkers)
CountsOutdated(depth, name, node, markers) ==
  depth > 0 /\ isOutdatedNode(name, node, markers, TRUE)

\* the entries pushed for cur.dependencies, in Object.entries order
Pushed(node, depth) ==
  [i \in DOMAIN node.dependencies |->
     <<node.dependencies[i][1], node.dependencies[i][2], depth + 1>>]

\* the while loop of collectSubtreeStats (lines 254-267).  Besides the code's
\* seen, outdatedSubdeps, approxBytes and the cache, st records the nodes
\* expanded, the <<id, path, bytes>> added, the ids counted as outdated, the
\* paths scanned on the filesystem and the <<name, node, depth>> visited first.
RECURSIVE SubtreeLoop(_, _, _, _, _)
SubtreeLoop(t, f, markers, stack, st) ==
  IF stack = <<>> THEN st
  ELSE
    LET top   == stack[Len(stack)]
        rest  == SubSeq(stack, 1, Len(stack) - 1)
        cur   == t.nodes[top[2]]
        id    == makeId(top[1], cur.version)
    IN
    IF AlreadySeen(st.seen, id) THEN SubtreeLoop(t, f, markers, rest, st)
    ELSE
      LET r   == getApproxPathSize(f, cur.path, st.cache)
          out == CountsOutdated(top[3], top[1], cur, markers)
      IN SubtreeLoop(t, f, markers, rest \o Pushed(cur, top[3]),
           [seen |-> Append(st.seen, id),
            outdatedSubdeps |-> st.outdatedSubdeps + (IF out THEN 1 ELSE 0),
            approxBytes |-> st.approxBytes + r.size,
            cache |-> r.cache,
            expanded |-> Append(st.expanded, top[2]),
            billed |-> Append(st.billed, <<id, cur.path, r.size>>),
            counted |-> IF out THEN Append(st.counted, id) ELSE st.counted,
            scans |-> IF r.scanned THEN Append(st.scans, cur.path)
                      ELSE st.scans,
            visited |-> Append(st.visited, top)])

\* Math.max(0, seen.size - 1)
SubdepsOf(seen) == IF Len(seen) - 1 > 0 THEN Len(seen) - 1 ELSE 0

\* collectSubtreeStats(name, node, pathSizeCache, outdatedMarkers)
\* (lines 244-270); node = 0 is a missing node
collectSubtreeStats(t, f, name, node, cache, markers) ==
  IF node = 0
    THEN [subdeps |-> 0, outdatedSubdeps |-> 0, approxBytes |-> 0,
          log |-> StartStats(cache)]
  ELSE
    LET st == SubtreeLoop(t, f, markers, << <<name, node, 0>> >>,
                          StartStats(cache))
    IN [subdeps |-> SubdepsOf(st.seen),
        outdatedSubdeps |-> st.outdatedSubdeps,
        approxBytes |-> st.approxBytes,
        log |-> st]

\* the stack collectAggregateApproxBytes starts from (lines 317-320)
AggregateSeed(t, names) ==
  LET found == SelectSeq(names, LAMBDA n : Lookup(t.dependencies, n) # 0)
  IN [i \in DOMAIN found |-> <<found[i], Lookup(t.dependencies, found[i])>>]

AggregatePushed(node) ==
  [i \in DOMAIN node.dependencies |->
     <<node.dependencies[i][1], node.dependencies[i][2]>>]

\* the while loop of collectAggregateApproxBytes (lines 322-334), with the
\* same record of what it did
RECURSIVE AggregateLoop(_, _, _, _)
AggregateLoop(t, f, stack, st) ==
  IF stack = <<>> THEN st
  ELSE
    LET top   == stack[Len(stack)]
        rest  == SubSeq(stack, 1, Len(stack) - 1)
        cur   == t.nodes[top[2]]
        id    == makeId(top[1], cur.version)
    IN
    IF AlreadySeen(st.seen, id) THEN AggregateLoop(t, f, rest, st)
    ELSE
      LET r == getApproxPathSize(f, cur.path, st.cache)
      IN AggregateLoop(t, f, rest \o AggregatePushed(cur),
           [st EXCEPT !.seen = Append(@, id),
                      !.approxBytes = @ + r.size,
                      !.cache = r.cache,
                      !.expanded = Append(@, top[2]),
                      !.billed = Append(@, <<id, cur.path, r.size>>),
                      !.scans = IF r.scanned THEN Append(@, cur.path) ELSE @])

\* collectAggregateApproxBytes(tree, topDepNames, pathSizeCache)
\* (lines 312-337)
collectAggregateApproxBytes(t, f, names, cache) ==
  LET st == AggregateLoop(t, f, AggregateSeed(t, names), StartStats(cache))
  IN [total |-> st.approxBytes, log |-> st]

----------------------------------------------------------------------------
(* Result ranking.                                                          *)

None == <<>>                        \* a null number
Some(n) == <<n>>

\* the collation of the names the model uses (String.prototype.localeCompare)
NameOrder == <<"alpha", "beta", "delta", "gamma", "shared">>

IndexOf(name) == CHOOSE i \in DOMAIN NameOrder : NameOrder[i] = name

Sign(n) == IF n < 0 THEN -1 ELSE IF n > 0 THEN 1 ELSE 0

localeCompare(a, b) == Sign(IndexOf(a) - IndexOf(b))

\* Date.parse, in whole seconds; a string that is no date gives NaN (None)
DateParse(value) ==
  IF value = "2024-12-01T10:00:00.000Z" THEN Some(1733047200)
  ELSE IF value = "2025-09-08T14:47:54.486Z" THEN Some(1757342874)
  ELSE IF value = "2026-01-01T00:00:00.000Z" THEN Some(1767225600)
  ELSE None

\* getPublishTimestamp(value) (lines 361-365)
getPublishTimestamp(value) ==
  IF value = Null \/ value = "" THEN None ELSE DateParse(value)

\* a variant whose default is descending for every sort key
getEffectiveSortDirectionDescending(sortMode, direction) ==
  IF direction = "asc" \/ direction = "desc" THEN direction ELSE "desc"

\* getEffectiveSortDirection(sortMode, direction) (lines 367-371)
getEffectiveSortDirection(sortMode, direction) ==
  IF direction = "asc" \/ direction = "desc" THEN direction
  ELSE IF sortMode = "name" THEN "asc"
  ELSE "desc"

\* x || y on numbers
OrElse(x, y) == IF x # 0 THEN x ELSE y

\* the publish comparator when a timestamp is missing (lines 500-504); 0: both
\* records are dated
\* a variant that puts the record without a timestamp first
MissingTimestampOrderFirst(aTs, bTs, a, b) ==
  IF aTs = None /\ bTs = None
    THEN OrElse(b.subdeps - a.subdeps,
         OrElse(b.approxBytes - a.approxBytes, localeCompare(a.name, b.name)))
  ELSE IF aTs = None THEN -1
  ELSE IF bTs = None THEN 1
  ELSE 0

MissingTimestampOrder(aTs, bTs, a, b) ==
  IF aTs = None /\ bTs = None
    THEN OrElse(b.subdeps - a.subdeps,
         OrElse(b.approxBytes - a.approxBytes, localeCompare(a.name, b.name)))
  ELSE IF aTs = None THEN 1
  ELSE IF bTs = None THEN -1
  ELSE 0

PublishCompare(asc, a, b) ==
  LET aTs == getPublishTimestamp(a.lastUpdated)
      bTs == getPublishTimestamp(b.lastUpdated)
  IN
  IF aTs = None \/ bTs = None THEN MissingTimestampOrder(aTs, bTs, a, b)
  ELSE OrElse(IF asc THEN aTs[1] - bTs[1] ELSE bTs[1] - aTs[1],
       OrElse(b.subdeps - a.subdeps,
       OrElse(b.approxBytes - a.approxBytes, localeCompare(a.name, b.name))))

\* a variant that ignores the direction
SizeCompareDescending(asc, a, b) ==
  OrElse(b.approxBytes - a.approxBytes,
  OrElse(b.subdeps - a.subdeps, localeCompare(a.name, b.name)))

SizeCompare(asc, a, b) ==
  OrElse(IF asc THEN a.approxBytes - b.approxBytes
         ELSE b.approxBytes - a.approxBytes,
  OrElse(b.subdeps - a.subdeps, localeCompare(a.name, b.name)))

NameCompare(asc, a, b) ==
  OrElse(IF asc THEN localeCompare(a.name, b.name)
         ELSE localeCompare(b.name, a.name),
  OrElse(b.subdeps - a.subdeps, b.approxBytes - a.approxBytes))

\* a variant whose tie-break chain stops before the name
SubdepsCompareWithoutName(asc, a, b) ==
  OrElse(IF asc THEN a.subdeps - b.subdeps ELSE b.subdeps - a.subdeps,
         b.approxBytes - a.approxBytes)

\* a variant in which the direction turns the whole chain round
SubdepsCompareWholeChain(asc, a, b) ==
  IF asc
    THEN OrElse(a.subdeps - b.subdeps,
         OrElse(a.approxBytes - b.approxBytes, localeCompare(b.name, a.name)))
    ELSE OrElse(b.subdeps - a.subdeps,
         OrElse(b.approxBytes - a.approxBytes, localeCompare(a.name, b.name)))

SubdepsCompare(asc, a, b) ==
  OrElse(IF asc THEN a.subdeps - b.subdeps ELSE b.subdeps - a.subdeps,
  OrElse(b.approxBytes - a.approxBytes, localeCompare(a.name, b.name)))

\* getResultsComparator(sortMode, direction)(a, b) (lines 491-529)
getResultsComparator(sortMode, direction, a, b) ==
  LET asc == getEffectiveSortDirection(sortMode, direction) = "asc" IN
  IF sortMode = "publish" THEN PublishCompare(asc, a, b)
  ELSE IF sortMode = "size" THEN SizeCompare(asc, a, b)
  ELSE IF sortMode = "name" THEN NameCompare(asc, a, b)
  ELSE SubdepsCompare(asc, a, b)

\* Array.prototype.sort with that comparator: a stable sort, here by insertion
InsertSorted(sortMode, direction, acc, x) ==
  LET after == {i \in DOMAIN acc :
                  getResultsComparator(sortMode, direction, x, acc[i]) < 0}
      at    == IF after = {} THEN Len(acc) + 1
               ELSE CHOOSE i \in after : \A j \in after : i <= j
  IN SubSeq(acc, 1, at - 1) \o <<x>> \o SubSeq(acc, at, Len(acc))

RECURSIVE SortFrom(_, _, _, _)
SortFrom(sortMode, direction, acc, todo) ==
  IF todo = <<>> THEN acc
  ELSE SortFrom(sortMode, direction,
                InsertSorted(sortMode, direction, acc, todo[1]), Tail(todo))

ArraySort(sortMode, direction, records) ==
  SortFrom(sortMode, direction, <<>>, records)

SortModes == {"subdeps", "size", "name", "publish"}
Directions == {Null, "asc", "desc"}

----------------------------------------------------------------------------
(* SpecSize: getApproxPathSize on every filesystem of a bounded family: a   *)
(* package directory /pkg with entries a and b, each possibly a directory   *)
(* with entries a and b of its own, and a directory /ext outside of it that *)
(* links point to.                                                          *)

FsNames == {"a", "b"}
PkgRoot == <<"pkg">>
ExtDir  == <<"ext">>
ExtFile == <<"ext", "f">>

Outside == (ExtDir :> Dir) @@ (ExtFile :> File(MaxBytes))

LeafEntries ==
  {File(n) : n \in 0..MaxBytes} \cup
  {Link(ExtDir), Link(ExtFile), Other, NoStat, Dir, NoRead}

\* the filesystems below path p with at most depth further levels; EmptyMap:
\* p does not exist
RECURSIVE FsBelow(_, _)
FsBelow(p, depth) ==
  {EmptyMap} \cup {(p :> e) : e \in LeafEntries} \cup
  (IF depth = 0 THEN {}
   ELSE {(p :> Dir) @@ ca @@ cb :
           ca \in FsBelow(Append(p, "a"), depth - 1),
           cb \in FsBelow(Append(p, "b"), depth - 1)})

FsFamily == {Outside @@ g : g \in FsBelow(PkgRoot, 2)}

RequestPaths == {NoPath, PkgRoot, <<"pkg", "a">>}

\* the variables of main, idle in the specifications of single functions
MainIdle ==
  /\ tree = [dependencies |-> <<>>, nodes |-> EmptyMap]
  /\ topDepNames = <<>> /\ outdatedJson = [t |-> "null"]
  /\ lastUpdatedByPackage = EmptyMap
  /\ args = [sort |-> "subdeps", direction |-> Null] /\ pc = "idle"
  /\ outdatedMarkers = [paths |-> {}, ids |-> {}]
  /\ outdatedCountsAvailable = FALSE
  /\ results = <<>> /\ statsLog = <<>> /\ aggregateLog = <<>>

\* no command line, no npm command
IoIdle ==
  /\ argv = <<>> /\ nodeEnv = "" /\ execRunner = <<>> /\ execLog = <<>>

mainVars == <<tree, topDepNames, outdatedJson, lastUpdatedByPackage, args, pc,
              outdatedMarkers, outdatedCountsAvailable, results, statsLog,
              aggregateLog>>

SortIdle == sample = <<>> /\ sorted = <<>>

\* no audit dataset, no call of a core function on its own
AuditIdle ==
  /\ auditJson = [t |-> "null"]
  /\ auditMarkers = [pathSeverityRanks |-> EmptyMap,
                     packageSeverityRanks |-> EmptyMap]
  /\ auditStats = <<>>

CoreIdle == coreCall = <<>> /\ coreOutcome = <<>>

\* no run of loadPkgJson or runNpmLs, no traversal on its own
LsIdle == manifest = <<>> /\ ls = <<>>

WalkIdle == walk = <<>>

InitSize ==
  /\ fs \in FsFamily
  /\ pathSizeCache = EmptyMap
  /\ sizeCalls = <<>>
  /\ MainIdle /\ SortIdle /\ IoIdle
  /\ AuditIdle /\ CoreIdle /\ LsIdle /\ WalkIdle

\* one call getApproxPathSize(path, pathSizeCache)
SizeCall(path) ==
  /\ Len(sizeCalls) < MaxCalls
  /\ LET r == getApproxPathSize(fs, path, pathSizeCache) IN
       /\ pathSizeCache' = r.cache
       /\ sizeCalls' = Append(sizeCalls,
            [path |-> path, size |-> r.size, scanned |-> r.scanned,
             added |-> r.added, reads |-> r.reads])
  /\ UNCHANGED <<fs, mainVars, sample, sorted, ioVars>>
  /\ UNCHANGED <<auditVars, coreVars, lsVars, walk>>

NextSize == \E path \in RequestPaths : SizeCall(path)

SpecSize == InitSize /\ [][NextSize]_vars

----------------------------------------------------------------------------
(* Spec: main on every tree of a bounded family.  A tree has NumNodes       *)
(* nodes below its root, in every shape; each node is one of the package    *)
(* variants; the entries of one dependencies object have different names.   *)

Root == <<"r">>                     \* process.cwd()

Variants ==
  { [name |-> "alpha",  version |-> "1.0.0", place |-> "hoisted"],
    [name |-> "beta",   version |-> "1.0.0", place |-> "hoisted"],
    [name |-> "shared", version |-> "1.0.0", place |-> "hoisted"],
    [name |-> "shared", version |-> "1.0.0", place |-> "nested"],
    [name |-> "shared", version |-> Null,    place |-> "none"] }

Nodes == 1..NumNodes

\* the parent of each node (0: the root object).  Nodes are numbered in the
\* order JSON.parse meets them, so the parent of n is n - 1 or one of the
\* ancestors of n - 1.
RECURSIVE AncestorsOrSelf(_, _)
AncestorsOrSelf(p, n) ==
  IF n = 0 THEN {0} ELSE {n} \cup AncestorsOrSelf(p, p[n])

Shapes ==
  {p \in [Nodes -> 0..(NumNodes - 1)] :
     \A n \in Nodes : p[n] < n /\ p[n] \in AncestorsOrSelf(p, n - 1)}

DistinctSiblings(p, v) ==
  \A m, n \in Nodes : (m < n /\ p[m] = p[n]) => v[m].name # v[n].name

\* the install path of node n: node_modules of the root, node_modules of the
\* parent's directory, or none
RECURSIVE PathOf(_, _, _)
PathOf(p, v, n) ==
  LET up == IF p[n] = 0 THEN NoPath ELSE PathOf(p, v, p[n]) IN
  IF v[n].place = "none" THEN NoPath
  ELSE IF v[n].place = "nested" /\ up # NoPath
    THEN up \o <<"node_modules", v[n].name>>
  ELSE Root \o <<"node_modules", v[n].name>>

ChildrenOf(p, v, parent) ==
  LET ids == SelectSeq([i \in Nodes |-> i], LAMBDA c : p[c] = parent)
  IN [i \in DOMAIN ids |-> <<v[ids[i]].name, ids[i]>>]

MakeTree(p, v) ==
  [dependencies |-> ChildrenOf(p, v, 0),
   nodes |-> [n \in Nodes |->
                [version |-> v[n].version, path |-> PathOf(p, v, n),
                 dependencies |-> ChildrenOf(p, v, n)]]]

Trees ==
  {MakeTree(pv[1], pv[2]) :
     pv \in {x \in Shapes \X [Nodes -> Variants] : DistinctSiblings(x[1], x[2])}}

\* the node_modules of a tree on disk: every install path is a directory that
\* holds one file of the given length
PackageDirs(t) == {t.nodes[n].path : n \in DOMAIN t.nodes} \ {NoPath}

TreeFs(t, bytes) ==
  LET dirs  == UNION {{SubSeq(d, 1, k) : k \in 1..Len(d)} : d \in PackageDirs(t)}
      files == {Append(d, "index.js") : d \in PackageDirs(t)}
  IN [q \in dirs \cup files |-> IF q \in files THEN File(bytes) ELSE Dir]

\* what `npm outdated --all --json` gave: nothing (the call failed), an empty
\* object, or a dataset with beta under its own key (no location) and an
\* unnamed entry located at node_modules/shared inside a nested array
OutdatedData ==
  JObj(<< <<"beta", JObj(<< <<"current", JStr("1.0.0")>>,
                            <<"wanted", JStr("1.1.0")>> >>)>>,
          <<"nested", JObj(<< <<"entries", JArr(<<
              JObj(<< <<"current", JStr("1.0.0")>>,
                      <<"latest", JNull>>,
                      <<"location",
                        JPath(FALSE, <<"node_modules", "shared">>)>> >>) >>)>>
          >>)>> >>)

\* the length of the files on disk together with the outdated dataset.  Sizes
\* come from getApproxPathSize and counts from the markers, and neither code
\* path reads the other's input, so each dataset is tried with one length.
DiskAndOutdated ==
  {<<0, JObj(<<>>)>>, <<MaxBytes, JNull>>, <<MaxBytes, OutdatedData>>}

ManifestChoices == {<<"alpha", "beta", "shared">>, <<"shared", "beta", "alpha">>}

LastUpdatedChoices ==
  { ("alpha" :> "2024-12-01T10:00:00.000Z") @@ ("beta" :> Null) @@
    ("shared" :> "2026-01-01T00:00:00.000Z") }

ArgChoices == {[sort |-> "subdeps", direction |-> Null],
               [sort |-> "size", direction |-> "asc"]}

Init ==
  /\ tree \in Trees
  /\ \E c \in DiskAndOutdated : fs = TreeFs(tree, c[1]) /\ outdatedJson = c[2]
  /\ topDepNames \in ManifestChoices
  /\ lastUpdatedByPackage \in LastUpdatedChoices
  /\ args = [sort |-> "subdeps", direction |-> Null]
  /\ pc = "start"
  /\ pathSizeCache = EmptyMap
  /\ outdatedMarkers = NoMarkers
  /\ outdatedCountsAvailable = FALSE
  /\ results = <<>> /\ statsLog = <<>> /\ aggregateLog = <<>>
  /\ sizeCalls = <<>> /\ SortIdle /\ IoIdle
  /\ AuditIdle /\ CoreIdle /\ LsIdle /\ WalkIdle

\* const outdatedCountsAvailable = outdatedJson !== null
\* a variant that takes an empty dataset for a failed fetch
CountsAvailableWhenNonEmpty(json) == json # JNull /\ json # JObj(<<>>)

CountsAvailable(json) == json # JNull

\* main, lines 536-538 and 576-577
MainStart ==
  /\ pc = "start"
  /\ outdatedMarkers' = collectOutdatedMarkers(Root, outdatedJson)
  /\ outdatedCountsAvailable' = CountsAvailable(outdatedJson)
  /\ results' = <<>>
  /\ pathSizeCache' = EmptyMap
  /\ pc' = "loop"
  /\ UNCHANGED <<fs, sizeCalls, tree, topDepNames, outdatedJson,
                 lastUpdatedByPackage, args, statsLog, aggregateLog,
                 sample, sorted, ioVars>>
  /\ UNCHANGED <<auditVars, coreVars, lsVars, walk>>

\* outdatedCountsAvailable ? n : null
\* a variant that reports a count whether or not the dataset was fetched
OutdatedFieldAlwaysCount(available, n) == Some(n)

OutdatedField(available, n) == IF available THEN Some(n) ELSE None

\* a variant that reports a missing package as one of unknown version
NotInstalledRecordAsUnknown(name, lastUpdated, available) ==
  [name |-> name, installed |-> "UNKNOWN", lastUpdated |-> lastUpdated,
   subdeps |-> 0, outdatedSubdeps |-> IF available THEN Some(0) ELSE None,
   approxBytes |-> 0]

\* the record pushed for a name that tree.dependencies lacks (lines 583-592)
NotInstalledRecord(name, lastUpdated, available) ==
  [name |-> name, installed |-> "NOT INSTALLED", lastUpdated |-> lastUpdated,
   subdeps |-> 0, outdatedSubdeps |-> OutdatedField(available, 0),
   approxBytes |-> 0]

\* the record pushed for an installed name (lines 597-606)
InstalledRecord(name, node, lastUpdated, available, stats) ==
  [name |-> name,
   installed |-> IF node.version = Null \/ node.version = "" THEN "UNKNOWN"
                 ELSE node.version,
   lastUpdated |-> lastUpdated,
   subdeps |-> stats.subdeps,
   outdatedSubdeps |-> OutdatedField(available, stats.outdatedSubdeps),
   approxBytes |-> stats.approxBytes]

\* one iteration of the loop over topDeps (lines 579-607)
MainTopDep ==
  /\ pc = "loop"
  /\ Len(results) < Len(topDepNames)
  /\ LET name  == topDepNames[Len(results) + 1]
         node  == Lookup(tree.dependencies, name)
         stats == collectSubtreeStats(tree, fs, name, node, pathSizeCache,
                                      outdatedMarkers)
     IN
     IF node = 0
       THEN /\ results' = Append(results,
                 NotInstalledRecord(name, lastUpdatedByPackage[name],
                                    outdatedCountsAvailable))
            /\ statsLog' = Append(statsLog,
                 [name |-> name, node |-> 0, before |-> pathSizeCache,
                  log |-> StartStats(pathSizeCache)])
            /\ UNCHANGED pathSizeCache
       ELSE /\ results' = Append(results,
                 InstalledRecord(name, tree.nodes[node],
                                 lastUpdatedByPackage[name],
                                 outdatedCountsAvailable, stats))
            /\ statsLog' = Append(statsLog,
                 [name |-> name, node |-> node, before |-> pathSizeCache,
                  log |-> stats.log])
            /\ pathSizeCache' = stats.log.cache
  /\ UNCHANGED <<fs, sizeCalls, tree, topDepNames, outdatedJson,
                 lastUpdatedByPackage, args, pc, outdatedMarkers,
                 outdatedCountsAvailable, aggregateLog, sample, sorted, ioVars>>
  /\ UNCHANGED <<auditVars, coreVars, lsVars, walk>>

\* after the loop: results.sort(...) and the aggregate (lines 609-610);
\* args.sort and args.direction are read here for the first time
MainFinish ==
  /\ pc = "loop"
  /\ Len(results) = Len(topDepNames)
  /\ \E a \in ArgChoices :
       /\ args' = a
       /\ results' = ArraySort(a.sort, a.direction, results)
  /\ LET agg == collectAggregateApproxBytes(tree, fs, topDepNames,
                                            pathSizeCache)
     IN /\ aggregateLog' = <<[total |-> agg.total, before |-> pathSizeCache,
                              log |-> agg.log]>>
        /\ pathSizeCache' = agg.log.cache
  /\ pc' = "done"
  /\ UNCHANGED <<fs, sizeCalls, tree, topDepNames, outdatedJson,
                 lastUpdatedByPackage, outdatedMarkers,
                 outdatedCountsAvailable, statsLog, sample, sorted, ioVars>>
  /\ UNCHANGED <<auditVars, coreVars, lsVars, walk>>

Next == MainStart \/ MainTopDep \/ MainFinish

Spec == Init /\ [][Next]_vars

----------------------------------------------------------------------------
(* SpecSort: Array.prototype.sort with getResultsComparator, on every       *)
(* arrangement of three records named alpha, beta and gamma.                *)

\* the names of the records handed to the sort, in the order they arrive in:
\* against the collation order, so that no sort key leaves them in place
SampleOrder == <<"gamma", "beta", "alpha">>

LastUpdatedValues ==
  {Null, "not a date", "2024-12-01T10:00:00.000Z", "2026-01-01T00:00:00.000Z"}

SampleKeys ==
  [subdeps : 0..MaxSubdeps, approxBytes : 0..MaxApprox,
   lastUpdated : LastUpdatedValues]

Samples ==
  {[i \in DOMAIN SampleOrder |->
      [name |-> SampleOrder[i], subdeps |-> keys[i].subdeps,
       approxBytes |-> keys[i].approxBytes,
       lastUpdated |-> keys[i].lastUpdated]] :
     keys \in [DOMAIN SampleOrder -> SampleKeys]}

InitSort ==
  /\ sample \in Samples
  /\ sorted = <<>>
  /\ fs = EmptyMap /\ pathSizeCache = EmptyMap /\ sizeCalls = <<>>
  /\ MainIdle /\ IoIdle
  /\ AuditIdle /\ CoreIdle /\ LsIdle /\ WalkIdle

\* [...sample].sort(getResultsComparator(sortMode, direction)), for one sort
\* mode and each direction (null: the default direction)
SortSample(sortMode) ==
  /\ sorted = <<>>
  /\ sorted' = <<[sort |-> sortMode,
                  effective |-> [d \in Directions |->
                                   getEffectiveSortDirection(sortMode, d)],
                  by |-> [d \in Directions |->
                            ArraySort(sortMode, d, sample)]]>>
  /\ UNCHANGED <<fs, pathSizeCache, sizeCalls, mainVars, sample, ioVars>>
  /\ UNCHANGED <<auditVars, coreVars, lsVars, walk>>

NextSort == \E sortMode \in SortModes : SortSample(sortMode)

SpecSort == InitSort /\ [][NextSort]_vars

----------------------------------------------------------------------------
(* parseArgs.  An element of argv is kept as what the code asks of it: the  *)
(* option it names (opt; "" for a word that does not start with "-"),       *)
(* whether a value follows an "=" sign (eq), and that value, or the word,   *)
(* cut at its commas (parts; no part for the empty string).                 *)

Opt(name) == [opt |-> name, eq |-> FALSE, parts |-> <<>>]      \* --omit
OptEq(name, parts) == [opt |-> name, eq |-> TRUE, parts |-> parts]
Word(parts) == [opt |-> "", eq |-> FALSE, parts |-> parts]     \* dev,peer
NoArg == [opt |-> "undefined", eq |-> FALSE, parts |-> <<>>]   \* argv[i + 1]
                                                               \* past the end

\* a === '--omit' ? argv[i + 1] : a.slice('--omit='.length)
RawOf(av, i) ==
  IF av[i].eq THEN Word(av[i].parts)
  ELSE IF i + 1 <= Len(av) THEN av[i + 1]
  ELSE NoArg

\* !raw || raw.startsWith('-')
MissingValue(raw) ==
  raw = NoArg \/ raw.opt # "" \/ (raw.opt = "" /\ raw.parts = <<>>)

\* the string of a value: its parts with the commas between them
RECURSIVE Join(_)
Join(parts) ==
  IF parts = <<>> THEN ""
  ELSE IF Len(parts) = 1 THEN parts[1]
  ELSE parts[1] \o "," \o Join(Tail(parts))

\* x.trim()
Trim(x) ==
  IF x = " dev" THEN "dev"
  ELSE IF x = "peer " THEN "peer"
  ELSE IF x = " " THEN ""
  ELSE x

allowedTypes == {"dev", "optional", "peer"}
allowedSorts == {"subdeps", "size", "name", "publish"}
allowedDirections == {"asc", "desc"}

\* raw.split(',').map(x => x.trim()).filter(Boolean)
SplitValues(raw) ==
  SelectSeq([i \in DOMAIN raw.parts |-> Trim(raw.parts[i])],
            LAMBDA x : x # "")

\* addTypes(raw, flag) (lines 391-407): the values, or the exit code of
\* printHelpAndExit(1)
addTypes(raw) ==
  IF MissingValue(raw) THEN [exit |-> Some(1), values |-> <<>>]
  ELSE IF SplitValues(raw) = <<>> THEN [exit |-> Some(1), values |-> <<>>]
  ELSE IF \E i \in DOMAIN SplitValues(raw) :
            SplitValues(raw)[i] \notin allowedTypes
    THEN [exit |-> Some(1), values |-> <<>>]
  ELSE [exit |-> None, values |-> SplitValues(raw)]

\* Number(argv[i + 1]), None: NaN
NumberOf(raw) ==
  IF raw = Word(<<"5">>) THEN Some(5)
  ELSE IF raw = Word(<<>>) THEN Some(0)
  ELSE None

\* the args object of lines 379-387
DefaultArgs(env) ==
  [json |-> FALSE, top |-> 10, sort |-> "subdeps", direction |-> Null,
   omit |-> IF env = "production" THEN {"dev"} ELSE {},
   include |-> {}, exit |-> None]

Exit(a, code) == [a EXCEPT !.exit = Some(code)]

\* the next index after a flag: one further when its value was argv[i + 1]
After(av, i) == IF av[i].eq THEN i + 1 ELSE i + 2

\* a variant in which the legacy alias sets the direction every time
SortFlagAliasOverrides(a, raw) ==
  IF MissingValue(raw) THEN Exit(a, 1)
  ELSE IF Join(raw.parts) \in {"publish-asc", "publish-desc"}
    THEN [a EXCEPT !.sort = "publish",
                   !.direction = IF Join(raw.parts) = "publish-asc" THEN "asc"
                                 ELSE "desc"]
  ELSE IF Join(raw.parts) \notin allowedSorts THEN Exit(a, 1)
  ELSE [a EXCEPT !.sort = Join(raw.parts)]

\* --sort (lines 413-430)
SortFlag(a, raw) ==
  IF MissingValue(raw) THEN Exit(a, 1)
  ELSE IF Join(raw.parts) \in {"publish-asc", "publish-desc"}
    THEN [a EXCEPT !.sort = "publish",
                   !.direction =
                     IF a.direction = Null
                       THEN IF Join(raw.parts) = "publish-asc" THEN "asc"
                            ELSE "desc"
                       ELSE a.direction]
  ELSE IF Join(raw.parts) \notin allowedSorts THEN Exit(a, 1)
  ELSE [a EXCEPT !.sort = Join(raw.parts)]

\* --direction (lines 431-442)
DirectionFlag(a, raw) ==
  IF MissingValue(raw) THEN Exit(a, 1)
  ELSE IF Join(raw.parts) \notin allowedDirections THEN Exit(a, 1)
  ELSE [a EXCEPT !.direction = Join(raw.parts)]

\* --top (lines 443-446)
TopFlag(a, raw) ==
  IF NumberOf(raw) # None /\ NumberOf(raw)[1] > 0
    THEN [a EXCEPT !.top = NumberOf(raw)[1]]
    ELSE a

\* --omit (lines 447-451)
OmitFlag(a, raw) ==
  IF addTypes(raw).exit # None THEN Exit(a, 1)
  ELSE [a EXCEPT !.omit = @ \cup Range(addTypes(raw).values)]

\* --include (lines 452-456)
IncludeFlag(a, raw) ==
  IF addTypes(raw).exit # None THEN Exit(a, 1)
  ELSE [a EXCEPT !.include = @ \cup Range(addTypes(raw).values)]

\* the for loop of lines 409-463; process.exit ends it
RECURSIVE ParseLoop(_, _, _)
ParseLoop(av, i, a) ==
  IF a.exit # None \/ i > Len(av) THEN a
  ELSE
    LET cur == av[i]
        raw == RawOf(av, i)
    IN
    IF cur = Opt("--json") THEN ParseLoop(av, i + 1, [a EXCEPT !.json = TRUE])
    ELSE IF cur.opt = "--sort"
      THEN ParseLoop(av, After(av, i), SortFlag(a, raw))
    ELSE IF cur.opt = "--direction"
      THEN ParseLoop(av, After(av, i), DirectionFlag(a, raw))
    ELSE IF cur = Opt("--top")
      THEN ParseLoop(av, i + 2,
                     TopFlag(a, IF i + 1 <= Len(av) THEN av[i + 1] ELSE NoArg))
    ELSE IF cur.opt = "--omit"
      THEN ParseLoop(av, After(av, i), OmitFlag(a, raw))
    ELSE IF cur.opt = "--include"
      THEN ParseLoop(av, After(av, i), IncludeFlag(a, raw))
    ELSE IF cur = Opt("--help") THEN Exit(a, 0)
    ELSE Exit(a, 1)

\* a variant that keeps an included type in omit
IncludeWinsNot(omit, include) == omit

\* for (const t of args.include) args.omit.delete(t) (line 466)
IncludeWins(omit, include) == omit \ include

\* parseArgs(argv) (lines 378-469); exit # None: the process ended in
\* printHelpAndExit and nothing was returned
parseArgs(av, env) ==
  LET a == ParseLoop(av, 3, DefaultArgs(env)) IN
  IF a.exit # None THEN a
  ELSE [a EXCEPT !.omit = IncludeWins(a.omit, a.include)]

----------------------------------------------------------------------------
(* SpecArgs: parseArgs on every command line of at most MaxArgs elements    *)
(* after `node rank-subdeps.js`.                                            *)

ArgTokens ==
  { OptEq("--omit", <<"dev">>), OptEq("--omit", <<"peer", " dev", "">>),
    OptEq("--include", <<"dev">>), OptEq("--include", <<"optional">>),
    OptEq("--include", <<"bogus">>), OptEq("--omit", <<" ">>),
    Opt("--omit"), Opt("--include"), Word(<<"dev">>),
    OptEq("--sort", <<"publish-asc">>), OptEq("--sort", <<"publish-desc">>),
    OptEq("--sort", <<"name">>), Opt("--sort"), Word(<<"size">>),
    OptEq("--direction", <<"asc">>), OptEq("--direction", <<"desc">>),
    Opt("--json"), Opt("--top"), Opt("--help") }

RECURSIVE ArgLists(_)
ArgLists(n) ==
  IF n = 0 THEN {<<>>}
  ELSE ArgLists(n - 1) \cup
       {Append(l, t) : l \in {x \in ArgLists(n - 1) : Len(x) = n - 1},
                       t \in ArgTokens}

InitArgs ==
  /\ \E l \in ArgLists(MaxArgs) :
       argv = <<Word(<<"node">>), Word(<<"rank-subdeps.js">>)>> \o l
  /\ nodeEnv \in {"", "production"}
  /\ execRunner = <<>> /\ execLog = <<>>
  /\ fs = EmptyMap /\ pathSizeCache = EmptyMap /\ sizeCalls = <<>>
  /\ tree = [dependencies |-> <<>>, nodes |-> EmptyMap]
  /\ topDepNames = <<>> /\ outdatedJson = [t |-> "null"]
  /\ lastUpdatedByPackage = EmptyMap
  /\ args = DefaultArgs(nodeEnv) /\ pc = "parseArgs"
  /\ outdatedMarkers = [paths |-> {}, ids |-> {}]
  /\ outdatedCountsAvailable = FALSE
  /\ results = <<>> /\ statsLog = <<>> /\ aggregateLog = <<>>
  /\ SortIdle
  /\ AuditIdle /\ CoreIdle /\ LsIdle /\ WalkIdle

\* const args = parseArgs(argv) (line 532)
ParseArgs ==
  /\ pc = "parseArgs"
  /\ args' = parseArgs(argv, nodeEnv)
  /\ pc' = IF parseArgs(argv, nodeEnv).exit # None THEN "exited" ELSE "parsed"
  /\ UNCHANGED <<fs, pathSizeCache, sizeCalls, tree, topDepNames, outdatedJson,
                 lastUpdatedByPackage, outdatedMarkers,
                 outdatedCountsAvailable, results, statsLog, aggregateLog,
                 sample, sorted, ioVars>>
  /\ UNCHANGED <<auditVars, coreVars, lsVars, walk>>

NextArgs == ParseArgs

SpecArgs == InitArgs /\ [][NextArgs]_vars

----------------------------------------------------------------------------
(* The npm commands.  execRunner maps a command to how it ends:             *)
(* [ok, stdout].  ok: execFileSync returned stdout (exit code 0); otherwise *)
(* it threw an error that carries stdout.  stdout is NoOutput (undefined)   *)
(* or a text, kept as its body and whether white space surrounds the body.  *)

NoOutput == [t |-> "undefined"]
Text(padded, body) == [t |-> "text", padded |-> padded, body |-> body]

\* String(out || '').trim()
TrimmedString(out) == IF out = NoOutput THEN "" ELSE out.body

\* an outdated dataset with one entry
BetaOutdated ==
  JObj(<< <<"beta", JObj(<< <<"current", JStr("1.0.0")>>,
                            <<"wanted", JStr("1.1.0")>> >>)>> >>)

BetaOutdatedText == "{\"beta\":{\"current\":\"1.0.0\",\"wanted\":\"1.1.0\"}}"

NpmError == "npm ERR! code E401"

Thrown == [threw |-> TRUE, value |-> JUndef]
Returned(v) == [threw |-> FALSE, value |-> v]

\* what `npm view <name> dist-tags.latest time --json` prints: a bare string,
\* the latest tag with the publish times, a nested tag with the modified
\* time only, and an answer keyed by the package name alpha
ViewStringText == "\"2024-12-01T10:00:00.000Z\""

ViewTagText ==
  "{\"dist-tags.latest\":\"5.6.2\",\"time\":{\"5.6.2\":\"2025-09-08T14:47:54.486Z\"}}"

ViewTag ==
  JObj(<< <<"dist-tags.latest", JStr("5.6.2")>>,
          <<"time", JObj(<< <<"5.6.2", JStr("2025-09-08T14:47:54.486Z")>> >>)>> >>)

ViewModifiedText ==
  "{\"dist-tags\":{\"latest\":\"5.6.2\"},\"time\":{\"modified\":\"2026-01-01T00:00:00.000Z\"}}"

ViewModified ==
  JObj(<< <<"dist-tags", JObj(<< <<"latest", JStr("5.6.2")>> >>)>>,
          <<"time", JObj(<< <<"modified", JStr("2026-01-01T00:00:00.000Z")>> >>)>> >>)

ViewKeyedText == "{\"alpha\":{\"modified\":\"2024-12-01T10:00:00.000Z\"}}"

ViewKeyed ==
  JObj(<< <<"alpha",
            JObj(<< <<"modified", JStr("2024-12-01T10:00:00.000Z")>> >>)>> >>)

\* what `npm ls --all --json --long` prints for a project without dependencies
LsTreeText == "{\"name\":\"fixture\",\"dependencies\":{}}"

LsTree == JObj(<< <<"name", JStr("fixture")>>, <<"dependencies", JObj(<<>>)>> >>)

\* a package.json with one dependency, and one that holds an empty string
PkgText == "{\"dependencies\":{\"alpha\":\"^1.0.0\"}}"

Pkg == JObj(<< <<"dependencies", JObj(<< <<"alpha", JStr("^1.0.0")>> >>)>> >>)

EmptyStringText == "\"\""

\* JSON.parse(text): the value, or a SyntaxError
JSONParse(text) ==
  IF text = "{}" THEN Returned(JObj(<<>>))
  ELSE IF text = "null" THEN Returned(JNull)
  ELSE IF text = LsTreeText THEN Returned(LsTree)
  ELSE IF text = PkgText THEN Returned(Pkg)
  ELSE IF text = EmptyStringText THEN Returned(JStr(""))
  ELSE IF text = BetaOutdatedText THEN Returned(BetaOutdated)
  ELSE IF text = ViewStringText THEN Returned(JStr("2024-12-01T10:00:00.000Z"))
  ELSE IF text = ViewTagText THEN Returned(ViewTag)
  ELSE IF text = ViewModifiedText THEN Returned(ViewModified)
  ELSE IF text = ViewKeyedText THEN Returned(ViewKeyed)
  ELSE Thrown

TypeOrder == <<"dev", "optional", "peer">>

\* Array.from(set).sort()
SortedTypes(S) == SelectSeq(TypeOrder, LAMBDA t : t \in S)

\* npmArgs of runNpmOutdated (lines 103-107)
OutdatedCommand(a) ==
  <<"outdated", "--all", "--json">>
    \o [i \in DOMAIN SortedTypes(a.omit) |-> "--omit=" \o SortedTypes(a.omit)[i]]
    \o [i \in DOMAIN SortedTypes(a.include) |->
          "--include=" \o SortedTypes(a.include)[i]]

\* the try block of runNpmOutdated (lines 109-115)
OutdatedTry(run) ==
  IF ~run.ok THEN Thrown
  ELSE IF TrimmedString(run.stdout) = "" THEN Returned(JObj(<<>>))
  ELSE JSONParse(TrimmedString(run.stdout))

\* what was caught: the error of the command with its stdout, or the
\* SyntaxError of JSON.parse, which has none
CaughtStdout(run) == IF ~run.ok THEN run.stdout ELSE NoOutput

\* a variant that gives up on every error
SalvageNothing(stdout) == Returned(JNull)

\* the catch block of runNpmOutdated (lines 116-127)
Salvage(stdout) ==
  IF TrimmedString(stdout) # "" /\ ~JSONParse(TrimmedString(stdout)).threw
    THEN JSONParse(TrimmedString(stdout))
  ELSE Returned(JNull)

\* runNpmOutdated(root, args, execRunner) (lines 101-128)
runNpmOutdated(run) ==
  IF OutdatedTry(run).threw THEN Salvage(CaughtStdout(run))
  ELSE OutdatedTry(run)

----------------------------------------------------------------------------
(* SpecOutdated: runNpmOutdated for every way `npm outdated` can end.       *)

OutdatedBodies == {"", "{}", "null", BetaOutdatedText, NpmError}

Outputs(bodies) ==
  {NoOutput} \cup {Text(padded, body) : padded \in BOOLEAN, body \in bodies}

Outcomes(bodies) == [ok : BOOLEAN, stdout : Outputs(bodies)]

\* the omit and include sets parseArgs can return
TypeSets ==
  {ts \in [omit : SUBSET allowedTypes, include : SUBSET allowedTypes] :
     ts.omit \cap ts.include = {}}

InitOutdated ==
  /\ \E ts \in TypeSets :
       args = [DefaultArgs("") EXCEPT !.omit = ts.omit, !.include = ts.include]
  /\ \E run \in Outcomes(OutdatedBodies) : execRunner = [outdated |-> run]
  /\ execLog = <<>> /\ argv = <<>> /\ nodeEnv = ""
  /\ pc = "runNpmOutdated"
  /\ fs = EmptyMap /\ pathSizeCache = EmptyMap /\ sizeCalls = <<>>
  /\ tree = [dependencies |-> <<>>, nodes |-> EmptyMap]
  /\ topDepNames = <<>> /\ outdatedJson = JUndef
  /\ lastUpdatedByPackage = EmptyMap
  /\ outdatedMarkers = [paths |-> {}, ids |-> {}]
  /\ outdatedCountsAvailable = FALSE
  /\ results = <<>> /\ statsLog = <<>> /\ aggregateLog = <<>>
  /\ SortIdle
  /\ AuditIdle /\ CoreIdle /\ LsIdle /\ WalkIdle

\* const outdatedJson = runNpmOutdated(root, args) (line 536)
RunNpmOutdated ==
  /\ pc = "runNpmOutdated"
  /\ execLog' = Append(execLog, OutdatedCommand(args))
  /\ outdatedJson' = runNpmOutdated(execRunner.outdated).value
  /\ pc' = IF runNpmOutdated(execRunner.outdated).threw THEN "threw"
           ELSE "returned"
  /\ UNCHANGED <<fs, pathSizeCache, sizeCalls, tree, topDepNames,
                 lastUpdatedByPackage, args, outdatedMarkers,
                 outdatedCountsAvailable, results, statsLog, aggregateLog,
                 sample, sorted, argv, nodeEnv, execRunner>>
  /\ UNCHANGED <<auditVars, coreVars, lsVars, walk>>

NextOutdated == RunNpmOutdated

SpecOutdated == InitOutdated /\ [][NextOutdated]_vars

----------------------------------------------------------------------------
(* The registry lookups.                                                    *)

\* raw[key]: undefined unless raw is an object that has the key
Prop(raw, key) == IF raw.t = "object" THEN Get(raw, key) ELSE JUndef

\* a truthy string
Truthy(v) == IsString(v) /\ v.s # ""

\* latestVersion of parseLastUpdatedValue (lines 134-139)
LatestVersion(raw) ==
  IF IsString(Prop(raw, "dist-tags.latest")) THEN Prop(raw, "dist-tags.latest")
  ELSE IF IsString(Prop(Prop(raw, "dist-tags"), "latest"))
    THEN Prop(Prop(raw, "dist-tags"), "latest")
  ELSE JNull

\* parseLastUpdatedValue(packageName, raw) (lines 130-155); Null: null
parseLastUpdatedValue(packageName, raw) ==
  IF IsString(raw) THEN raw.s
  ELSE IF ~IsObjectLike(raw) THEN Null
  ELSE IF /\ Truthy(LatestVersion(raw))
          /\ IsObjectLike(Prop(raw, "time"))
          /\ IsString(Prop(Prop(raw, "time"), LatestVersion(raw).s))
    THEN Prop(Prop(raw, "time"), LatestVersion(raw).s).s
  ELSE IF IsString(Prop(raw, packageName)) THEN Prop(raw, packageName).s
  ELSE IF IsString(Prop(raw, "modified")) THEN Prop(raw, "modified").s
  ELSE IF IsString(Prop(Prop(raw, "time"), "modified"))
    THEN Prop(Prop(raw, "time"), "modified").s
  ELSE IF /\ IsObjectLike(Prop(raw, packageName))
          /\ IsString(Prop(Prop(raw, packageName), "modified"))
    THEN Prop(Prop(raw, packageName), "modified").s
  ELSE Null

\* parseOutput(text) of runNpmViewLastUpdated (lines 161-169)
parseOutput(packageName, text) ==
  IF text = "" THEN Null
  ELSE IF JSONParse(text).threw THEN Null
  ELSE parseLastUpdatedValue(packageName, JSONParse(text).value)

\* npmArgs of runNpmViewLastUpdated (line 159)
ViewCommand(packageName) ==
  <<"view", packageName, "dist-tags.latest", "time", "--json">>

\* a variant that lets the error of the command escape
runNpmViewLastUpdatedUnguarded(packageName, run) ==
  IF run.ok
    THEN [threw |-> FALSE,
          value |-> parseOutput(packageName, TrimmedString(run.stdout))]
    ELSE [threw |-> TRUE, value |-> Null]

\* runNpmViewLastUpdated(root, packageName, execRunner) (lines 157-180): both
\* the try and the catch block return parseOutput of the stdout at hand
runNpmViewLastUpdated(packageName, run) ==
  [threw |-> FALSE,
   value |-> parseOutput(packageName, TrimmedString(run.stdout))]

\* the loop of collectLastUpdatedByPackage (lines 184-186): the map and the
\* commands run so far; an exception ends it
RECURSIVE LastUpdatedLoop(_, _, _)
LastUpdatedLoop(runner, names, acc) ==
  IF names = <<>> THEN acc
  ELSE LET name == names[1]
           got  == runNpmViewLastUpdated(name, runner[name])
           log  == Append(acc.log, ViewCommand(name))
       IN IF got.threw
            THEN [threw |-> TRUE, byPackage |-> acc.byPackage, log |-> log]
            ELSE LastUpdatedLoop(runner, Tail(names),
                   [threw |-> FALSE,
                    byPackage |-> (name :> got.value) @@ acc.byPackage,
                    log |-> log])

\* collectLastUpdatedByPackage(root, packageNames, execRunner) (lines 182-188)
collectLastUpdatedByPackage(runner, packageNames) ==
  LastUpdatedLoop(runner, packageNames,
                  [threw |-> FALSE, byPackage |-> EmptyMap, log |-> <<>>])

----------------------------------------------------------------------------
(* SpecLastUpdated: collectLastUpdatedByPackage for every list of at most   *)
(* MaxPackages top-level names and every way each `npm view` can end.       *)

PackageNames == {"alpha", "beta", "shared"}

ViewBodies ==
  {"", NpmError, ViewStringText, ViewTagText, ViewModifiedText, ViewKeyedText}

RECURSIVE NameLists(_)
NameLists(n) ==
  IF n = 0 THEN {<<>>}
  ELSE NameLists(n - 1) \cup
       {Append(l, x) : l \in {y \in NameLists(n - 1) : Len(y) = n - 1},
                       x \in PackageNames}

InitLastUpdated ==
  /\ topDepNames \in {l \in NameLists(MaxPackages) :
                        \A i, j \in DOMAIN l : i # j => l[i] # l[j]}
  /\ execRunner \in [Range(topDepNames) -> Outcomes(ViewBodies)]
  /\ execLog = <<>> /\ argv = <<>> /\ nodeEnv = ""
  /\ pc = "collectLastUpdatedByPackage"
  /\ lastUpdatedByPackage = EmptyMap
  /\ fs = EmptyMap /\ pathSizeCache = EmptyMap /\ sizeCalls = <<>>
  /\ tree = [dependencies |-> <<>>, nodes |-> EmptyMap]
  /\ outdatedJson = [t |-> "null"]
  /\ args = [sort |-> "subdeps", direction |-> Null]
  /\ outdatedMarkers = [paths |-> {}, ids |-> {}]
  /\ outdatedCountsAvailable = FALSE
  /\ results = <<>> /\ statsLog = <<>> /\ aggregateLog = <<>>
  /\ SortIdle
  /\ AuditIdle /\ CoreIdle /\ LsIdle /\ WalkIdle

\* const lastUpdatedByPackage = collectLastUpdatedByPackage(root,
\* Object.keys(topDeps)) (line 574)
CollectLastUpdated ==
  /\ pc = "collectLastUpdatedByPackage"
  /\ LET got == collectLastUpdatedByPackage(execRunner, topDepNames) IN
       /\ lastUpdatedByPackage' = got.byPackage
       /\ execLog' = got.log
       /\ pc' = IF got.threw THEN "threw" ELSE "returned"
  /\ UNCHANGED <<fs, pathSizeCache, sizeCalls, tree, topDepNames,
                 outdatedJson, args, outdatedMarkers,
                 outdatedCountsAvailable, results, statsLog, aggregateLog,
                 sample, sorted, argv, nodeEnv, execRunner>>
  /\ UNCHANGED <<auditVars, coreVars, lsVars, walk>>

NextLastUpdated == CollectLastUpdated

SpecLastUpdated == InitLastUpdated /\ [][NextLastUpdated]_vars

----------------------------------------------------------------------------
(* collectOutdatedMarkers on its own: one call on a dataset of any shape.   *)

\* an object literal: the fields that are present, in source order
Obj(pairs) == JObj(SelectSeq(pairs, LAMBDA pr : pr[2] # JUndef))

NameChoices     == {JUndef, JNull, JStr(""), JStr("alpha")}
CurrentChoices  == {JUndef, JNull, JStr("1.0.0")}
LatestChoices   == {JUndef, JNull, JStr("2.0.0")}
WantedChoices   == {JUndef, JStr("1.1.0")}
LocationChoices == {JUndef, JPath(FALSE, <<>>),
                    JPath(FALSE, <<"node_modules", "alpha">>),
                    JPath(TRUE, <<"opt", "alpha">>)}

\* the objects npm outdated may or may not mean as entries, and two values
\* that are not objects
Leaves ==
  { Obj(<< <<"name", n>>, <<"current", c>>, <<"latest", l>>,
           <<"wanted", w>>, <<"location", loc>> >>) :
      n \in NameChoices, c \in CurrentChoices, l \in LatestChoices,
      w \in WantedChoices, loc \in LocationChoices }
  \cup {JNull, JStr("text")}

\* an entry that is always one: named by its key, with a location
GammaEntry ==
  JObj(<< <<"current", JStr("3.0.0")>>, <<"wanted", JStr("3.0.1")>>,
          <<"location", JPath(FALSE, <<"node_modules", "gamma">>)>> >>)

\* one more level around a value: under a key, in an array, next to another
\* entry, or as a field of an entry
Under(x)  == JObj(<< <<"beta", x>> >>)
Listed(x) == JArr(<< x >>)
Beside(x) == JObj(<< <<"beta", x>>, <<"gamma", GammaEntry>> >>)
Around(x) == JObj(<< <<"current", JStr("4.0.0")>>, <<"latest", JNull>>,
                     <<"inner", x>> >>)

RECURSIVE Datasets(_)
Datasets(depth) ==
  IF depth = 0 THEN Leaves
  ELSE LET inner == Datasets(depth - 1) IN
       inner \cup {Under(x) : x \in inner} \cup {Listed(x) : x \in inner}
             \cup {Beside(x) : x \in inner} \cup {Around(x) : x \in inner}

InitMarkers ==
  /\ outdatedJson \in Datasets(MaxDepth) \cup {JUndef}
  /\ pc = "collectOutdatedMarkers"
  /\ outdatedMarkers = NoMarkers
  /\ fs = EmptyMap /\ pathSizeCache = EmptyMap /\ sizeCalls = <<>>
  /\ tree = [dependencies |-> <<>>, nodes |-> EmptyMap]
  /\ topDepNames = <<>> /\ lastUpdatedByPackage = EmptyMap
  /\ args = [sort |-> "subdeps", direction |-> Null]
  /\ outdatedCountsAvailable = FALSE
  /\ results = <<>> /\ statsLog = <<>> /\ aggregateLog = <<>>
  /\ SortIdle /\ IoIdle
  /\ AuditIdle /\ CoreIdle /\ LsIdle /\ WalkIdle

\* collectOutdatedMarkers(root, outdatedJson)
CollectOutdatedMarkers ==
  /\ pc = "collectOutdatedMarkers"
  /\ outdatedMarkers' = collectOutdatedMarkers(Root, outdatedJson)
  /\ pc' = "returned"
  /\ UNCHANGED <<fs, pathSizeCache, sizeCalls, tree, topDepNames,
                 outdatedJson, lastUpdatedByPackage, args,
                 outdatedCountsAvailable, results, statsLog, aggregateLog,
                 sample, sorted>>
  /\ UNCHANGED ioVars
  /\ UNCHANGED <<auditVars, coreVars, lsVars, walk>>

NextMarkers == CollectOutdatedMarkers

SpecMarkers == InitMarkers /\ [][NextMarkers]_vars

----------------------------------------------------------------------------
(* The audit marker extractor, collectAuditMarkers(root, auditJson).  The   *)
(* tests call it; its definition is taken from the specification (section   *)
(* "Audit extractor") and from the ranks the test expects.                  *)

\* low < moderate < high < critical; moderate is 1 and high is 2
severityOrder == <<"low", "moderate", "high", "critical">>

severityRank(severity) ==
  IF IsString(severity) /\ ~IsPathString(severity)
     /\ severity.s \in Range(severityOrder)
    THEN Some((CHOOSE i \in DOMAIN severityOrder :
                 severityOrder[i] = severity.s) - 1)
    ELSE None

NoAuditMarkers ==
  [pathSeverityRanks |-> EmptyMap, packageSeverityRanks |-> EmptyMap]

\* the table with the rank seen last, whatever was there
KeepLatest(table, key, rank) ==
  [k \in DOMAIN table \cup {key} |-> IF k = key THEN rank ELSE table[k]]

\* the table with key at the highest rank seen for it
KeepHighest(table, key, rank) ==
  [k \in DOMAIN table \cup {key} |->
     IF k # key THEN table[k]
     ELSE IF key \in DOMAIN table /\ table[key] > rank THEN table[key]
     ELSE rank]

\* the node locations of one vulnerability, each resolved against root
RECURSIVE AuditNodes(_, _, _, _, _)
AuditNodes(root, nodes, i, rank, table) ==
  IF i > Len(nodes) THEN table
  ELSE AuditNodes(root, nodes, i + 1, rank,
         IF NonEmptyString(nodes[i]) /\ IsPathString(nodes[i])
           THEN KeepHighest(table, resolve2(root, nodes[i]), rank)
           ELSE table)

\* one entry of `vulnerabilities`: skipped unless it is an object with a known
\* severity
AuditEntry(root, key, vuln, markers) ==
  IF ~IsObjectLike(vuln) \/ vuln.t = "array" THEN markers
  ELSE LET rank  == severityRank(Get(vuln, "severity"))
           nameV == Get(vuln, "name")
           name  == IF IsString(nameV) /\ ~IsPathString(nameV) /\ nameV.s # ""
                      THEN nameV.s ELSE key
           nodes == Get(vuln, "nodes")
       IN IF rank = None THEN markers
          ELSE [packageSeverityRanks |->
                  KeepHighest(markers.packageSeverityRanks, name, rank[1]),
                pathSeverityRanks |->
                  IF nodes.t = "array"
                    THEN AuditNodes(root, nodes.e, 1, rank[1],
                                    markers.pathSeverityRanks)
                    ELSE markers.pathSeverityRanks]

RECURSIVE AuditLoop(_, _, _, _)
AuditLoop(root, entries, i, markers) ==
  IF i > Len(entries) THEN markers
  ELSE AuditLoop(root, entries, i + 1,
                 AuditEntry(root, entries[i][1], entries[i][2], markers))

collectAuditMarkers(root, json) ==
  IF ~IsObjectLike(json) \/ json.t = "array" THEN NoAuditMarkers
  ELSE LET vulnerabilities == Get(json, "vulnerabilities") IN
       IF ~IsObjectLike(vulnerabilities) \/ vulnerabilities.t = "array"
         THEN NoAuditMarkers
         ELSE AuditLoop(root, vulnerabilities.e, 1, NoAuditMarkers)

\* the datasets `npm audit --json` may give
VulnerabilityKeys == <<"alpha", "beta", "gamma", "delta">>

SeverityChoices ==
  {JUndef, JStr("low"), JStr("moderate"), JStr("high"), JStr("critical"),
   JStr("unheard")}

NodesChoices ==
  {JUndef,
   JArr(<< JPath(FALSE, <<"node_modules", "alpha">>) >>),
   JArr(<< JNull, JPath(FALSE, <<"node_modules", "alpha">>),
           JPath(FALSE, <<"node_modules", "beta">>) >>)}

Vulnerabilities ==
  { Obj(<< <<"name", n>>, <<"severity", sev>>, <<"nodes", nodes>> >>) :
      n \in {JUndef, JStr("alpha")}, sev \in SeverityChoices,
      nodes \in NodesChoices }
  \cup {JNull}

AuditReports ==
  { JObj(<< <<"vulnerabilities",
              JObj([i \in 1..n |-> <<VulnerabilityKeys[i], pick[i]>>])>> >>) :
      n \in 0..MaxVulnerabilities,
      pick \in [1..MaxVulnerabilities -> Vulnerabilities] }
  \cup {JNull, JUndef, JObj(<<>>), JObj(<< <<"vulnerabilities", JNull>> >>)}

InitAudit ==
  /\ auditJson \in AuditReports
  /\ auditMarkers = NoAuditMarkers
  /\ auditStats = <<>>
  /\ pc = "collectAuditMarkers"
  /\ fs = EmptyMap /\ pathSizeCache = EmptyMap /\ sizeCalls = <<>>
  /\ tree = [dependencies |-> <<>>, nodes |-> EmptyMap]
  /\ topDepNames = <<>> /\ lastUpdatedByPackage = EmptyMap
  /\ outdatedJson = [t |-> "null"] /\ outdatedMarkers = NoMarkers
  /\ args = [sort |-> "subdeps", direction |-> Null]
  /\ outdatedCountsAvailable = FALSE
  /\ results = <<>> /\ statsLog = <<>> /\ aggregateLog = <<>>
  /\ SortIdle /\ IoIdle /\ CoreIdle /\ LsIdle /\ WalkIdle

\* collectAuditMarkers(root, auditJson)
CollectAuditMarkers ==
  /\ pc = "collectAuditMarkers"
  /\ auditMarkers' = collectAuditMarkers(Root, auditJson)
  /\ pc' = "returned"
  /\ UNCHANGED <<fs, pathSizeCache, sizeCalls, tree, topDepNames,
                 outdatedJson, lastUpdatedByPackage, args, outdatedMarkers,
                 outdatedCountsAvailable, results, statsLog, aggregateLog,
                 sample, sorted, auditJson, auditStats>>
  /\ UNCHANGED <<ioVars, coreVars, lsVars, walk>>

NextAudit == CollectAuditMarkers

SpecAudit == InitAudit /\ [][NextAudit]_vars

----------------------------------------------------------------------------
(* The audit part of collectSubtreeStats(name, node, cache, outdatedMarkers, *)
(* auditMarkers), as the tests call it: taken from the specification        *)
(* (sections "Subtree Aggregator" and "Open question").                     *)

\* both tables consulted, the higher rank taken
AuditRankMerged(name, node, markers) ==
  LET byPath == IF node.path # NoPath /\
                   resolve1(node.path) \in DOMAIN markers.pathSeverityRanks
                  THEN {markers.pathSeverityRanks[resolve1(node.path)]} ELSE {}
      byName == IF name \in DOMAIN markers.packageSeverityRanks
                  THEN {markers.packageSeverityRanks[name]} ELSE {}
      both   == byPath \cup byName
  IN IF both = {} THEN None
     ELSE Some(CHOOSE r \in both : \A other \in both : other <= r)

\* the rank of a node: the path check fires first, then the package check
AuditRank(name, node, markers) ==
  IF node.path # NoPath /\
     resolve1(node.path) \in DOMAIN markers.pathSeverityRanks
    THEN Some(markers.pathSeverityRanks[resolve1(node.path)])
  ELSE IF name \in DOMAIN markers.packageSeverityRanks
    THEN Some(markers.packageSeverityRanks[name])
  ELSE None

\* the counters kept while walking: one step per node visited first
RECURSIVE AuditWalk(_, _, _, _, _)
AuditWalk(t, visited, i, markers, acc) ==
  IF i > Len(visited) THEN acc
  ELSE LET name  == visited[i][1]
           node  == t.nodes[visited[i][2]]
           depth == visited[i][3]
           rank  == IF depth > 0 THEN AuditRank(name, node, markers) ELSE None
       IN AuditWalk(t, visited, i + 1, markers,
            IF rank = None THEN acc
            ELSE [auditSubdeps |-> acc.auditSubdeps + 1,
                  maxRank |-> IF acc.maxRank = None \/ acc.maxRank[1] < rank[1]
                                THEN rank ELSE acc.maxRank])

\* the severity reported for a rank: its name, or null
severityLabel(rank) == IF rank = None THEN Null ELSE severityOrder[rank[1] + 1]

\* what the call returns, with the nodes it visited and the cache it left
AuditFields(name, node, stats, acc) ==
  [name |-> name, node |-> node, subdeps |-> stats.subdeps,
   auditSubdeps |-> acc.auditSubdeps,
   auditSeverity |-> severityLabel(acc.maxRank),
   visited |-> stats.log.visited, cache |-> stats.log.cache]

AuditOf(t, name, node, audit, stats) ==
  AuditFields(name, node, stats,
              AuditWalk(t, stats.log.visited, 1, audit,
                        [auditSubdeps |-> 0, maxRank |-> None]))

collectSubtreeAudit(t, f, name, node, cache, outdated, audit) ==
  AuditOf(t, name, node, audit,
          collectSubtreeStats(t, f, name, node, cache, outdated))

\* audit tables: the hoisted copy of shared ranked by its path, shared and beta
\* ranked by name
PathTables ==
  {EmptyMap, [path \in {Root \o <<"node_modules", "shared">>} |-> 1]}

PackageTables ==
  {EmptyMap, [name \in {"shared"} |-> 2],
   [name \in {"shared", "beta"} |-> IF name = "beta" THEN 3 ELSE 0]}

InitAuditStats ==
  /\ tree \in Trees
  /\ fs = TreeFs(tree, MaxBytes)
  /\ topDepNames = <<"alpha", "beta", "shared">>
  /\ auditMarkers \in
       {[pathSeverityRanks |-> byPath, packageSeverityRanks |-> byName] :
          byPath \in PathTables, byName \in PackageTables}
  /\ auditJson = [t |-> "null"] /\ auditStats = <<>>
  /\ pc = "loop"
  /\ pathSizeCache = EmptyMap /\ sizeCalls = <<>>
  /\ lastUpdatedByPackage = EmptyMap
  /\ outdatedJson = [t |-> "null"] /\ outdatedMarkers = NoMarkers
  /\ args = [sort |-> "subdeps", direction |-> Null]
  /\ outdatedCountsAvailable = FALSE
  /\ results = <<>> /\ statsLog = <<>> /\ aggregateLog = <<>>
  /\ SortIdle /\ IoIdle /\ CoreIdle /\ LsIdle /\ WalkIdle

RecordAudit(stats) ==
  /\ auditStats' = Append(auditStats, stats)
  /\ pathSizeCache' = stats.cache

\* collectSubtreeStats for the next top-level dependency
AuditTopDep ==
  /\ pc = "loop"
  /\ Len(auditStats) < Len(topDepNames)
  /\ LET name == topDepNames[Len(auditStats) + 1] IN
     RecordAudit(collectSubtreeAudit(tree, fs, name,
                                     Lookup(tree.dependencies, name),
                                     pathSizeCache, outdatedMarkers,
                                     auditMarkers))
  /\ UNCHANGED <<fs, sizeCalls, tree, topDepNames, outdatedJson,
                 lastUpdatedByPackage, args, pc, outdatedMarkers,
                 outdatedCountsAvailable, results, statsLog, aggregateLog,
                 sample, sorted, auditJson, auditMarkers>>
  /\ UNCHANGED <<ioVars, coreVars, lsVars, walk>>

NextAuditStats == AuditTopDep

SpecAuditStats == InitAuditStats /\ [][NextAuditStats]_vars

----------------------------------------------------------------------------
(* The core functions called on their own with data of any shape.  A node   *)
(* that is null or undefined is node 0; a node without version, path or     *)
(* dependencies has Null, NoPath or no entries there, which is what         *)
(* cur?.version, cur?.path and `cur && cur.dependencies` make of it.        *)

EmptyTree == [dependencies |-> <<>>, nodes |-> EmptyMap]

\* what `tree` is: null, undefined, an object without `dependencies`, or an
\* object with them
TreeKinds == {"null", "undefined", "bare", "object"}

\* what a side dataset may be besides an object
SideDatasets ==
  {JNull, JUndef, JStr("text"), JArr(<<>>), JObj(<<>>), OutdatedData}

\* null, or the markers of OutdatedData
MarkerKinds == {"null", "object"}

MarkersOf(kind) ==
  IF kind = "null" THEN NoMarkers ELSE collectOutdatedMarkers(Root, OutdatedData)

\* collectAggregateApproxBytes(tree, topDepNames, pathSizeCache): line 318
\* reads tree.dependencies once for every name
AggregateReturned(agg) ==
  [threw |-> FALSE, value |-> Some(agg.total), cache |-> agg.log.cache]

aggregateOfAnyTree(treeIs, t, f, names, cache) ==
  IF treeIs \in {"null", "undefined"} /\ names # <<>>
    THEN [threw |-> TRUE, value |-> None, cache |-> cache]
  ELSE AggregateReturned(collectAggregateApproxBytes(t, f, names, cache))

\* collectSubtreeStats(name, node, pathSizeCache, outdatedMarkers): nothing in
\* lines 244-270 reads a field of a null value; with null markers
\* isOutdatedNode answers false, as it does with empty ones
SubtreeReturned(stats) ==
  [threw |-> FALSE,
   value |-> [subdeps |-> stats.subdeps,
              outdatedSubdeps |-> stats.outdatedSubdeps,
              approxBytes |-> stats.approxBytes],
   cache |-> stats.log.cache]

subtreeStatsOfAnyNode(t, f, name, node, cache, markersAre) ==
  SubtreeReturned(collectSubtreeStats(t, f, name, node, cache,
                                      MarkersOf(markersAre)))

\* isOutdatedNode(name, node, outdatedMarkers): node?.path, node?.version
isOutdatedAnyNode(t, name, node, markersAre, cache) ==
  [threw |-> FALSE,
   value |-> isOutdatedNode(name,
               IF node = 0 THEN [version |-> Null, path |-> NoPath]
               ELSE t.nodes[node],
               MarkersOf(markersAre), markersAre # "null"),
   cache |-> cache]

InitCore ==
  /\ pc = "call"
  /\ coreOutcome = <<>>
  /\ \/ /\ coreCall \in [fn : {"collectAggregateApproxBytes"},
                         treeIs : TreeKinds,
                         names : ManifestChoices \cup {<<>>}]
        /\ tree \in IF coreCall.treeIs = "object" THEN Trees ELSE {EmptyTree}
        /\ outdatedJson = JNull
     \/ /\ coreCall \in [fn : {"collectSubtreeStats"},
                         name : {"alpha", "beta", "shared"},
                         nodeIs : {"null", "object"},
                         markersAre : MarkerKinds]
        /\ tree \in Trees
        /\ outdatedJson = JNull
     \/ /\ coreCall \in [fn : {"isOutdatedNode"}, name : {"shared"},
                         node : 0..NumNodes, markersAre : MarkerKinds]
        /\ tree \in Trees
        /\ outdatedJson = JNull
     \/ /\ coreCall \in [fn : {"collectOutdatedMarkers"}]
        /\ tree = EmptyTree
        /\ outdatedJson \in SideDatasets
  /\ fs = TreeFs(tree, MaxBytes)
  /\ pathSizeCache = EmptyMap /\ sizeCalls = <<>>
  /\ topDepNames = <<>> /\ lastUpdatedByPackage = EmptyMap
  /\ outdatedMarkers = NoMarkers
  /\ args = [sort |-> "subdeps", direction |-> Null]
  /\ outdatedCountsAvailable = FALSE
  /\ results = <<>> /\ statsLog = <<>> /\ aggregateLog = <<>>
  /\ SortIdle /\ IoIdle /\ AuditIdle /\ LsIdle /\ WalkIdle

CoreUnchanged ==
  UNCHANGED <<fs, sizeCalls, tree, topDepNames, outdatedJson,
              lastUpdatedByPackage, args, outdatedCountsAvailable, results,
              statsLog, aggregateLog, sample, sorted, ioVars, auditVars,
              coreCall, lsVars, walk>>

Ended(outcome) == IF outcome.threw THEN "threw" ELSE "returned"

\* the call ends: its outcome, and the cache as it left it
CoreEnds(outcome) ==
  /\ coreOutcome' = <<[threw |-> outcome.threw, value |-> outcome.value]>>
  /\ pathSizeCache' = outcome.cache
  /\ pc' = Ended(outcome)

CallAggregate ==
  /\ pc = "call" /\ coreCall.fn = "collectAggregateApproxBytes"
  /\ CoreEnds(aggregateOfAnyTree(coreCall.treeIs, tree, fs, coreCall.names,
                                 pathSizeCache))
  /\ UNCHANGED outdatedMarkers
  /\ CoreUnchanged

CallSubtreeStats ==
  /\ pc = "call" /\ coreCall.fn = "collectSubtreeStats"
  /\ CoreEnds(subtreeStatsOfAnyNode(tree, fs, coreCall.name,
                IF coreCall.nodeIs = "null" THEN 0
                ELSE Lookup(tree.dependencies, coreCall.name),
                pathSizeCache, coreCall.markersAre))
  /\ UNCHANGED outdatedMarkers
  /\ CoreUnchanged

CallIsOutdatedNode ==
  /\ pc = "call" /\ coreCall.fn = "isOutdatedNode"
  /\ CoreEnds(isOutdatedAnyNode(tree, coreCall.name, coreCall.node,
                                coreCall.markersAre, pathSizeCache))
  /\ UNCHANGED outdatedMarkers
  /\ CoreUnchanged

CallCollectOutdatedMarkers ==
  /\ pc = "call" /\ coreCall.fn = "collectOutdatedMarkers"
  /\ outdatedMarkers' = collectOutdatedMarkers(Root, outdatedJson)
  /\ coreOutcome' = <<[threw |-> FALSE, value |-> outdatedMarkers']>>
  /\ pc' = "returned"
  /\ UNCHANGED pathSizeCache
  /\ CoreUnchanged

NextCore ==
  CallAggregate \/ CallSubtreeStats \/ CallIsOutdatedNode
    \/ CallCollectOutdatedMarkers

SpecCore == InitCore /\ [][NextCore]_vars

----------------------------------------------------------------------------
(* loadPkgJson and runNpmLs (lines 33-99), the first two steps of main after *)
(* parseArgs. runNpmLs is modelled block by block: the capture directory,   *)
(* the try block, the catch block, the finally block.                       *)

\* readJSON (lines 33-39): the parsed file, or null when it cannot be read
\* or parsed
readJSON(file) ==
  IF file = NoOutput THEN JNull
  ELSE IF JSONParse(file.body).threw THEN JNull
  ELSE JSONParse(file.body).value

\* !pkg (line 43) for the values JSON.parse yields here
Falsy(v) == v = JNull \/ v = JUndef \/ v = JStr("")

\* npmArgs of runNpmLs (lines 54-58)
LsCommand(a) ==
  <<"ls", "--all", "--json", "--long">>
    \o [i \in DOMAIN SortedTypes(a.omit) |-> "--omit=" \o SortedTypes(a.omit)[i]]
    \o [i \in DOMAIN SortedTypes(a.include) |->
          "--include=" \o SortedTypes(a.include)[i]]

\* readFileSync(stdoutPath, 'utf8') of the catch block (lines 79-82): the
\* text, or '' when the file cannot be read
LsCaughtStdout(file) == IF file = NoOutput THEN Text(FALSE, "") ELSE file

\* if (stdout) (line 83): a string is truthy unless it is empty
NonEmptyText(text) == text.padded \/ text.body # ""

\* a catch block that gives up without looking at the captured output
LsSalvageNever(file) == Thrown

\* lines 83-87: the captured output parsed once more, when there is any
LsSalvage(file) ==
  IF NonEmptyText(LsCaughtStdout(file)) THEN JSONParse(LsCaughtStdout(file).body)
  ELSE Thrown

\* closeSync(stdoutFd) when stdoutFd !== null (lines 73-78 and 92-96)
LsClosed(l) ==
  IF l.stdoutFd = Null THEN l
  ELSE [l EXCEPT !.stdoutFd = Null, !.descriptor = "closed"]

LsStart ==
  [captureDir |-> "none", stdoutFd |-> Null, descriptor |-> "none",
   file |-> NoOutput, pkg |-> JUndef, pending |-> None, result |-> None,
   exit |-> None, exitedIn |-> Null]

LsBodies == {"", "{}", "null", LsTreeText, NpmError}

ManifestBodies == {"{}", "null", PkgText, EmptyStringText, NpmError}

\* how the run of npm goes: whether the capture file can be opened, whether
\* npm exits with success, and what it wrote to its stdout before it ended
LsRuns ==
  [open : BOOLEAN, ok : BOOLEAN,
   stdout : {Text(padded, body) : padded \in BOOLEAN, body \in LsBodies}]

InitLs ==
  /\ \E ts \in TypeSets :
       args = [DefaultArgs("") EXCEPT !.omit = ts.omit, !.include = ts.include]
  /\ \E run \in LsRuns : execRunner = [ls |-> run]
  /\ manifest \in {NoOutput} \cup {Text(FALSE, body) : body \in ManifestBodies}
  /\ ls = LsStart
  /\ execLog = <<>> /\ argv = <<>> /\ nodeEnv = ""
  /\ pc = "loadPkgJson"
  /\ fs = EmptyMap /\ pathSizeCache = EmptyMap /\ sizeCalls = <<>>
  /\ tree = [dependencies |-> <<>>, nodes |-> EmptyMap]
  /\ topDepNames = <<>> /\ outdatedJson = JUndef
  /\ lastUpdatedByPackage = EmptyMap
  /\ outdatedMarkers = [paths |-> {}, ids |-> {}]
  /\ outdatedCountsAvailable = FALSE
  /\ results = <<>> /\ statsLog = <<>> /\ aggregateLog = <<>>
  /\ SortIdle /\ AuditIdle /\ CoreIdle /\ WalkIdle

LsUnchanged ==
  UNCHANGED <<fs, pathSizeCache, sizeCalls, tree, topDepNames, outdatedJson,
              lastUpdatedByPackage, args, outdatedMarkers,
              outdatedCountsAvailable, results, statsLog, aggregateLog,
              sample, sorted, argv, nodeEnv, execRunner, auditVars, coreVars,
              manifest, walk>>

\* process.exit(1): the process ends here, no later block of the function runs
LsExit(l, fn) ==
  /\ ls' = [l EXCEPT !.exit = Some(1), !.exitedIn = fn]
  /\ pc' = "exited"

\* const pkg = loadPkgJson(root) (line 534; lines 41-48)
LoadPkgJson ==
  /\ pc = "loadPkgJson"
  /\ IF Falsy(readJSON(manifest)) THEN LsExit(ls, "loadPkgJson")
     ELSE /\ ls' = [ls EXCEPT !.pkg = readJSON(manifest)]
          /\ pc' = "runNpmLs"
  /\ UNCHANGED execLog
  /\ LsUnchanged

\* lines 59-61: mkdtempSync, stdoutPath, stdoutFd = null
LsMakeCaptureDir ==
  /\ pc = "runNpmLs"
  /\ ls' = [ls EXCEPT !.captureDir = "exists", !.stdoutFd = Null]
  /\ pc' = "ls-try"
  /\ UNCHANGED execLog
  /\ LsUnchanged

\* the rest of the try block once npm has exited with success (lines 68-71)
LsTryAfterExec(l) ==
  IF JSONParse(l.file.body).threw
    THEN ls' = LsClosed(l) /\ pc' = "ls-catch"
    ELSE /\ ls' = [LsClosed(l) EXCEPT
                     !.pending = Some(JSONParse(l.file.body).value)]
         /\ pc' = "ls-finally"

\* the try block (lines 62-71)
LsTry ==
  /\ pc = "ls-try"
  /\ IF ~execRunner.ls.open
       THEN UNCHANGED <<ls, execLog>> /\ pc' = "ls-catch"
       ELSE /\ execLog' = Append(execLog, LsCommand(args))
            /\ IF ~execRunner.ls.ok
                 THEN /\ ls' = [ls EXCEPT !.stdoutFd = "fd",
                                          !.descriptor = "open",
                                          !.file = execRunner.ls.stdout]
                      /\ pc' = "ls-catch"
                 ELSE LsTryAfterExec([ls EXCEPT !.stdoutFd = "fd",
                                                !.descriptor = "open",
                                                !.file = execRunner.ls.stdout])
  /\ LsUnchanged

\* the end of the catch block (lines 83-90)
LsCatchEnds(l, salvaged) ==
  IF salvaged.threw THEN LsExit(l, "runNpmLs")
  ELSE ls' = [l EXCEPT !.pending = Some(salvaged.value)] /\ pc' = "ls-finally"

\* the catch block (lines 72-90)
LsCatch ==
  /\ pc = "ls-catch"
  /\ LsCatchEnds(LsClosed(ls), LsSalvage(ls.file))
  /\ UNCHANGED execLog
  /\ LsUnchanged

\* the finally block (lines 91-98), then the pending return
LsFinally ==
  /\ pc = "ls-finally"
  /\ ls' = [LsClosed(ls) EXCEPT !.captureDir = "removed",
                                !.result = ls.pending]
  /\ pc' = "returned"
  /\ UNCHANGED execLog
  /\ LsUnchanged

NextLs == LoadPkgJson \/ LsMakeCaptureDir \/ LsTry \/ LsCatch \/ LsFinally

SpecLs == InitLs /\ [][NextLs]_vars

----------------------------------------------------------------------------
(* SpecWalk: the while loops of collectSubtreeStats and                     *)
(* collectAggregateApproxBytes, one iteration per step, on dependency       *)
(* graphs whose nodes may be shared and may lie on cycles (objects that     *)
(* refer to each other), with the same name@version on two of the nodes.    *)

\* nodes of a dependency graph
GraphNodes == 3

\* the package each node of a graph is an occurrence of: nodes 2 and 3 are
\* both shared@1.0.0, the second installed below alpha
GraphNames == <<"alpha", "shared", "shared", "beta", "beta">>

GraphPath(n) ==
  IF n = 3 THEN Root \o <<"node_modules", "alpha", "node_modules", "shared">>
  ELSE Root \o <<"node_modules", GraphNames[n]>>

\* the dependencies objects a node can have: any nodes, with different keys
GraphChildren ==
  {c \in SUBSET (1..GraphNodes) :
     \A m, n \in c : m # n => GraphNames[m] # GraphNames[n]}

EntriesOf(c) ==
  LET ids == SelectSeq([i \in 1..GraphNodes |-> i], LAMBDA n : n \in c)
  IN [i \in DOMAIN ids |-> <<GraphNames[ids[i]], ids[i]>>]

Graphs ==
  {[dependencies |-> EntriesOf({1, 2}),
    nodes |-> [n \in 1..GraphNodes |->
                 [version |-> "1.0.0", path |-> GraphPath(n),
                  dependencies |-> EntriesOf(e[n])]]] :
     e \in [1..GraphNodes -> GraphChildren]}

\* the locals of a traversal before its loop, with a log of the iterations
WalkStart(fn, stack) ==
  [fn |-> fn, stack |-> stack, seen |-> <<>>, approxBytes |-> 0, log |-> <<>>]

InitWalk ==
  /\ tree \in Graphs
  /\ fs = TreeFs(tree, MaxBytes)
  /\ topDepNames = <<"alpha", "shared", "beta">>
  /\ \/ walk = WalkStart("collectSubtreeStats",
                         << <<"alpha", Lookup(tree.dependencies, "alpha"), 0>> >>)
     \/ walk = WalkStart("collectAggregateApproxBytes",
                         AggregateSeed(tree, topDepNames))
  /\ pc = "while"
  /\ pathSizeCache = EmptyMap /\ sizeCalls = <<>>
  /\ outdatedJson = JNull /\ lastUpdatedByPackage = EmptyMap
  /\ outdatedMarkers = NoMarkers
  /\ args = [sort |-> "subdeps", direction |-> Null]
  /\ outdatedCountsAvailable = FALSE
  /\ results = <<>> /\ statsLog = <<>> /\ aggregateLog = <<>>
  /\ SortIdle /\ IoIdle /\ AuditIdle /\ CoreIdle /\ LsIdle

WalkUnchanged ==
  UNCHANGED <<fs, sizeCalls, tree, topDepNames, outdatedJson,
              lastUpdatedByPackage, args, outdatedMarkers,
              outdatedCountsAvailable, results, statsLog, aggregateLog,
              sample, sorted, ioVars, auditVars, coreVars, lsVars>>

\* what the iteration pushes for cur.dependencies (lines 262-266, 330-333)
WalkPushed(fn, top, cur) ==
  IF fn = "collectSubtreeStats" THEN Pushed(cur, top[3])
  ELSE AggregatePushed(cur)

\* one iteration, the popped entry being top: `continue` when its key is in
\* seen (lines 257, 325), else the key is added, the size is added and the
\* children are pushed (lines 258-266, 326-333)
WalkIteration(w, top, cur, id, rest) ==
  IF AlreadySeen(w.seen, id)
    THEN /\ walk' = [w EXCEPT !.stack = rest,
                              !.log = Append(@, [id |-> id, node |-> top[2],
                                                 expanded |-> FALSE,
                                                 pushed |-> 0])]
         /\ UNCHANGED pathSizeCache
    ELSE /\ walk' = [w EXCEPT
                       !.stack = rest \o WalkPushed(w.fn, top, cur),
                       !.seen = Append(@, id),
                       !.approxBytes =
                          @ + getApproxPathSize(fs, cur.path, pathSizeCache).size,
                       !.log = Append(@, [id |-> id, node |-> top[2],
                                          expanded |-> TRUE,
                                          pushed |-> Len(cur.dependencies)])]
         /\ pathSizeCache' = getApproxPathSize(fs, cur.path, pathSizeCache).cache

\* while (stack.length) { ... } (lines 254-267, 322-334)
WalkLoop ==
  /\ pc = "while"
  /\ walk.stack # <<>>
  /\ WalkIteration(walk, walk.stack[Len(walk.stack)],
                   tree.nodes[walk.stack[Len(walk.stack)][2]],
                   makeId(walk.stack[Len(walk.stack)][1],
                          tree.nodes[walk.stack[Len(walk.stack)][2]].version),
                   SubSeq(walk.stack, 1, Len(walk.stack) - 1))
  /\ UNCHANGED pc
  /\ WalkUnchanged

\* the loop is left and the function returns (lines 269, 336)
WalkReturn ==
  /\ pc = "while"
  /\ walk.stack = <<>>
  /\ pc' = "returned"
  /\ UNCHANGED <<walk, pathSizeCache>>
  /\ WalkUnchanged

NextWalk == WalkLoop \/ WalkReturn

\* the loop is a plain sequential loop: a step that can be taken is taken.
\* This is WF_vars(NextWalk) with ENABLED <<NextWalk>>_vars written out: a
\* step is possible exactly while pc = "while".
SpecWalk ==
  /\ InitWalk /\ [][NextWalk]_vars
  /\ ([]<>(pc # "while") \/ []<><<NextWalk>>_vars)

----------------------------------------------------------------------------
(* What the claims speak of, defined on the tree and the filesystem alone.  *)

\* the <<name, node>> occurrences reachable from a set of them through
\* `dependencies` edges
RECURSIVE ReachFrom(_, _, _)
ReachFrom(t, frontier, found) ==
  IF frontier \subseteq found THEN found
  ELSE LET new == frontier \ found IN
       ReachFrom(t,
         UNION {{<<e[1], e[2]>> : e \in Range(t.nodes[o[2]].dependencies)} :
                  o \in new},
         found \cup new)

ReachableFrom(t, name, node) == ReachFrom(t, {<<name, node>>}, {})

IdOf(t, o) == makeId(o[1], t.nodes[o[2]].version)

ReachableIds(t, name, node) ==
  {IdOf(t, o) : o \in ReachableFrom(t, name, node)}

\* the bytes of the regular files below path that a link-free chain of
\* readable directories leads to
PlainBelow(f, path, q) ==
  /\ IsPrefix(path, q)
  /\ f[q].kind = "file" /\ f[q].ok
  /\ \A k \in Len(path)..(Len(q) - 1) :
       LET d == SubSeq(q, 1, k) IN
       d \in DOMAIN f /\ f[d].kind = "dir" /\ f[d].ok

TrueSize(f, path) ==
  IF path = NoPath THEN 0
  ELSE LET files == SetToSeq({q \in DOMAIN f : PlainBelow(f, path, q)})
       IN SumSeq([i \in DOMAIN files |-> f[files[i]].size])

ResultOf(name) == CHOOSE r \in Range(results) : r.name = name

Installed(i) == statsLog[i].node # 0

\* the installed top-level names main has processed
ListedInstalled ==
  {i \in DOMAIN topDepNames : Lookup(tree.dependencies, topDepNames[i]) # 0}

----------------------------------------------------------------------------
(* C1: for every dependency tree, the subdeps reported for a top-level      *)
(* package equals the number of distinct name@version keys reachable from   *)
(* its node through dependencies edges (its own key included) minus 1,      *)
(* whichever occurrence of a repeated key is reached first.                 *)
C1_SubdepsCountsReachableKeys ==
  \A i \in DOMAIN statsLog :
    Installed(i) =>
      ResultOf(statsLog[i].name).subdeps =
        Cardinality(ReachableIds(tree, statsLog[i].name, statsLog[i].node)) - 1

(* C2: collectAggregateApproxBytes adds the disk size of a package to the    *)
(* grand total exactly once: every name@version reachable from the listed   *)
(* top-level dependencies is billed once, also when two or more of them     *)
(* reach it.                                                                *)
AggregateRoots ==
  {<<topDepNames[i], Lookup(tree.dependencies, topDepNames[i])>> :
     i \in ListedInstalled}

BilledTimes(log, id) ==
  Cardinality({j \in DOMAIN log.billed : log.billed[j][1] = id})

C2_AggregateBillsEachPackageOnce ==
  pc = "done" =>
    \A o \in ReachFrom(tree, AggregateRoots, {}) :
      BilledTimes(aggregateLog[1].log, IdOf(tree, o)) = 1

(* C3: a package that two top-level dependencies both reach is billed into  *)
(* the approxBytes of each of them, and the result for one top-level        *)
(* dependency does not depend on the order of processing nor on what the    *)
(* shared size cache already holds: every size added is the size of that    *)
(* install path on disk, approxBytes is their sum, and the result is the    *)
(* one an empty cache gives.                                                *)
BilledTrueSizes(log) ==
  [j \in DOMAIN log.billed |-> TrueSize(fs, log.billed[j][2])]

C3_SubtreeBytesIgnoreCacheAndOrder ==
  \A i \in DOMAIN statsLog :
    Installed(i) =>
      LET e     == statsLog[i]
          r     == ResultOf(e.name)
          fresh == collectSubtreeStats(tree, fs, e.name, e.node, EmptyMap,
                                       outdatedMarkers)
      IN /\ \A j \in DOMAIN e.log.billed :
              e.log.billed[j][3] = TrueSize(fs, e.log.billed[j][2])
         /\ r.approxBytes = SumSeq(BilledTrueSizes(e.log))
         /\ \A k \in Range(e.log.seen) : BilledTimes(e.log, k) = 1
         /\ r.approxBytes = fresh.approxBytes
         /\ r.subdeps = fresh.subdeps
         /\ e.log.seen = fresh.log.seen

\* two top-level dependencies were processed, the second one met a package
\* of the first one's subtree in the cache, and that package has bytes
C3_Witness ==
  \E i, j \in DOMAIN statsLog :
    /\ i < j /\ Installed(i) /\ Installed(j)
    /\ \E b \in DOMAIN statsLog[j].log.billed :
         LET item == statsLog[j].log.billed[b] IN
         /\ b > 1
         /\ item[1] \in Range(statsLog[i].log.seen)
         /\ item[2] \in DOMAIN statsLog[j].before
         /\ item[3] > 0

(* C4: when the outdated fetch returned null, every record main builds, for *)
(* installed and not installed dependencies alike, has outdatedSubdeps null *)
(* (never 0); when it returned a dataset every record has an integer count. *)
C4_NullOutdatedGivesNullCounts ==
  pc \in {"loop", "done"} =>
    \A i \in DOMAIN results :
      IF outdatedJson = JNull
        THEN results[i].outdatedSubdeps = None
        ELSE /\ results[i].outdatedSubdeps # None
             /\ results[i].outdatedSubdeps[1] \in Nat

C4_Witness ==
  /\ pc = "done" /\ outdatedJson = JNull
  /\ \E i, j \in DOMAIN results :
       /\ results[i].installed = "NOT INSTALLED"
       /\ results[j].installed # "NOT INSTALLED" /\ results[j].subdeps > 0

(* C5 as stated: for an unavailable dataset collectOutdatedMarkers produces *)
(* a result that can be told from the one for an available, empty dataset.  *)
C5_ExtractorSignalsUnavailable ==
  (pc # "start" /\ outdatedJson = JNull) =>
    outdatedMarkers # collectOutdatedMarkers(Root, JObj(<<>>))

(* C5 as amended: collectOutdatedMarkers gives the same empty marker sets   *)
(* for an unavailable dataset and for an empty one; the unavailable signal  *)
(* is main's outdatedCountsAvailable, false exactly when the fetch returned *)
(* null, and it is what turns every record's count into null.               *)
C5_MainSignalsUnavailable ==
  pc # "start" =>
    /\ outdatedCountsAvailable = (outdatedJson # JNull)
    /\ outdatedJson \in {JNull, JObj(<<>>)} => outdatedMarkers = NoMarkers
    /\ \A i \in DOMAIN results :
         (results[i].outdatedSubdeps = None) = ~outdatedCountsAvailable

C5_Witness ==
  /\ pc = "done" /\ outdatedJson = JNull /\ results # <<>>
  /\ outdatedMarkers = collectOutdatedMarkers(Root, JObj(<<>>))

(* C6: a package that matches the outdated markers (by install path or by   *)
(* name@version) is counted in outdatedSubdeps exactly once per subtree     *)
(* that contains it, however often it occurs there; the top-level package   *)
(* itself is never counted; and a matching package that two top-level       *)
(* dependencies share is counted once in each of them (the formula speaks   *)
(* of every subtree processed, one at a time).                              *)
MatchingIds(name, node) ==
  {IdOf(tree, o) :
     o \in {x \in ReachableFrom(tree, name, node) :
              isOutdatedNode(x[1], tree.nodes[x[2]], outdatedMarkers, TRUE)}}
  \ {makeId(name, tree.nodes[node].version)}

C6_OutdatedCountedOncePerSubtree ==
  \A i \in DOMAIN statsLog :
    Installed(i) =>
      LET e   == statsLog[i]
          ids == MatchingIds(e.name, e.node)
      IN /\ e.log.outdatedSubdeps = Cardinality(ids)
         /\ \A k \in ids : Count(e.log.counted, k) = 1
         /\ Count(e.log.counted, makeId(e.name, tree.nodes[e.node].version)) = 0

(* C8: a name of the manifest that the installed tree lacks gets a record   *)
(* with subdeps 0, approxBytes 0 and installed "NOT INSTALLED", and the     *)
(* records of the other top-level dependencies are still produced.          *)
C8_NotInstalledRecord ==
  /\ \A i \in DOMAIN statsLog :
       ~Installed(i) =>
         LET r == ResultOf(statsLog[i].name) IN
         r.subdeps = 0 /\ r.approxBytes = 0 /\ r.installed = "NOT INSTALLED"
  /\ \A i \in DOMAIN statsLog :
       Installed(i) => ResultOf(statsLog[i].name).installed # "NOT INSTALLED"
  /\ pc = "done" =>
       /\ Len(results) = Len(topDepNames)
       /\ {results[i].name : i \in DOMAIN results} = Range(topDepNames)

C8_Witness ==
  /\ pc = "done"
  /\ ~Installed(1) /\ Installed(2)
  /\ ResultOf(statsLog[2].name).subdeps > 0
  /\ ResultOf(statsLog[1].name).installed = "NOT INSTALLED"

----------------------------------------------------------------------------
(* Claims about getApproxPathSize (SpecSize).                               *)

(* C7: a symbolic link never adds bytes to a size total and is never        *)
(* traversed into, whether it is the requested path itself or an entry at   *)
(* any depth of a scanned directory, and whether it points to a file or to  *)
(* a directory: no link is among the paths whose size was added or whose    *)
(* entries were listed, nothing outside the requested path is touched, and  *)
(* the bytes returned are those of the regular files below the path that a  *)
(* chain of directories leads to.                                           *)
C7_LinksAddNothing ==
  \A i \in DOMAIN sizeCalls :
    LET c == sizeCalls[i] IN
    /\ \A j \in DOMAIN c.added :
         fs[c.added[j]].kind = "file" /\ IsPrefix(c.path, c.added[j])
    /\ \A j \in DOMAIN c.reads :
         fs[c.reads[j]].kind = "dir" /\ IsPrefix(c.path, c.reads[j])
    /\ c.size = TrueSize(fs, c.path)
    /\ (c.path # NoPath /\ c.path \in DOMAIN fs /\ fs[c.path].kind = "link")
         => c.size = 0

\* the package directory was scanned: it holds a link to a directory and a
\* directory with a link to a file next to a file with bytes; and the path
\* asked for in another call is itself a link
C7_Witness ==
  /\ PkgRoot \in DOMAIN fs /\ fs[PkgRoot].kind = "dir"
  /\ <<"pkg", "a">> \in DOMAIN fs /\ fs[<<"pkg", "a">>] = Link(ExtDir)
  /\ <<"pkg", "b", "a">> \in DOMAIN fs
  /\ fs[<<"pkg", "b", "a">>] = Link(ExtFile)
  /\ <<"pkg", "b", "b">> \in DOMAIN fs
  /\ fs[<<"pkg", "b", "b">>] = File(MaxBytes)
  /\ Len(sizeCalls) = 2
  /\ sizeCalls[1].path = <<"pkg", "a">> /\ sizeCalls[1].scanned
  /\ sizeCalls[1].size = 0
  /\ sizeCalls[2].path = PkgRoot /\ sizeCalls[2].scanned
  /\ sizeCalls[2].size = MaxBytes

----------------------------------------------------------------------------
(* Claims about the comparator (SpecSort).                                  *)

Dated(r) == getPublishTimestamp(r.lastUpdated) # None

Reverse(s) == [i \in DOMAIN s |-> s[Len(s) + 1 - i]]

(* C9 as stated: under the publish key a record without a usable timestamp  *)
(* is treated as oldest: after all dated records in descending mode, before *)
(* all dated records in ascending mode.                                     *)
C9_MissingTimestampIsOldest ==
  (sorted # <<>> /\ sorted[1].sort = "publish") =>
    /\ \A i, j \in 1..Len(sample) :
         (Dated(sorted[1].by["desc"][i]) /\ ~Dated(sorted[1].by["desc"][j]))
           => i < j
    /\ \A i, j \in 1..Len(sample) :
         (Dated(sorted[1].by["asc"][i]) /\ ~Dated(sorted[1].by["asc"][j]))
           => j < i

(* C9 as amended: under the publish key a record whose last-published       *)
(* timestamp is missing or unparsable sorts after all dated records, in     *)
(* descending mode and in ascending mode alike.                             *)
C9_MissingTimestampSortsLast ==
  (sorted # <<>> /\ sorted[1].sort = "publish") =>
    \A d \in Directions :
      \A i, j \in 1..Len(sample) :
        (Dated(sorted[1].by[d][i]) /\ ~Dated(sorted[1].by[d][j])) => i < j

\* sorted by publish date: the first record of the sample has no timestamp,
\* the second an unparsable one, the third is dated
C9_Witness ==
  /\ sorted # <<>> /\ sorted[1].sort = "publish"
  /\ sample[1].lastUpdated = Null
  /\ sample[2].lastUpdated = "not a date"
  /\ Dated(sample[3])
  /\ sorted[1].by["asc"][1] = sample[3]
  /\ sorted[1].by["desc"][1] = sample[3]

(* C10: for records of which no two have the same approxBytes, the order    *)
(* that getResultsComparator('size', 'asc') produces is the exact reverse   *)
(* of the order that getResultsComparator('size', 'desc') produces.         *)
DistinctSizes ==
  \A i, j \in DOMAIN sample :
    i # j => sample[i].approxBytes # sample[j].approxBytes

C10_SizeAscReversesDesc ==
  (sorted # <<>> /\ sorted[1].sort = "size" /\ DistinctSizes) =>
    sorted[1].by["asc"] = Reverse(sorted[1].by["desc"])

\* three records of different sizes, in neither order, were sorted by size
C10_Witness ==
  /\ sorted # <<>> /\ sorted[1].sort = "size" /\ DistinctSizes
  /\ sorted[1].by["asc"] # sample /\ sorted[1].by["desc"] # sample
  /\ sample[1].subdeps # sample[2].subdeps

(* C11: for every sort key and both directions the tie-break chain ends in  *)
(* name ascending: two records with different names never compare as equal, *)
(* records that agree on subdeps, approxBytes and timestamp come out in     *)
(* name order (under the name key: in the order the direction asks for),    *)
(* and the sorted order of records with distinct names is the same for      *)
(* every input order.                                                       *)
Rearrangements(s) ==
  {[i \in DOMAIN s |-> s[f[i]]] :
     f \in {g \in [DOMAIN s -> DOMAIN s] :
              \A i, j \in DOMAIN s : i # j => g[i] # g[j]}}

SameKeys(a, b) ==
  /\ a.subdeps = b.subdeps /\ a.approxBytes = b.approxBytes
  /\ getPublishTimestamp(a.lastUpdated) = getPublishTimestamp(b.lastUpdated)

C11_NameBreaksEveryTie ==
  sorted # <<>> =>
    \A d \in {"asc", "desc"} :
      LET mode == sorted[1].sort
          out  == sorted[1].by[d]
      IN /\ \A i, j \in DOMAIN sample :
              i # j => getResultsComparator(mode, d, sample[i], sample[j]) # 0
         /\ \A i, j \in DOMAIN out :
              (i < j /\ SameKeys(out[i], out[j])) =>
                IF mode = "name" /\ d = "desc"
                  THEN localeCompare(out[i].name, out[j].name) > 0
                  ELSE localeCompare(out[i].name, out[j].name) < 0
         /\ \A other \in Rearrangements(sample) :
              ArraySort(mode, d, other) = out

\* sorted by subdeps: three records that agree on every key came in against
\* the name order and went out in name order
C11_Witness ==
  /\ sorted # <<>> /\ sorted[1].sort = "subdeps"
  /\ SameKeys(sample[1], sample[2]) /\ SameKeys(sample[2], sample[3])
  /\ <<sample[1].name, sample[2].name, sample[3].name>>
       = <<"gamma", "beta", "alpha">>
  /\ sorted[1].by["desc"] = Reverse(sample)
  /\ sorted[1].by["asc"] = Reverse(sample)

(* C12: with no direction given (null) the effective direction is           *)
(* descending for the subdeps, size and publish keys and ascending for the  *)
(* name key, and the records are sorted that way; an explicit asc or desc   *)
(* is the effective direction for every key.                                *)
C12_DefaultDirection ==
  sorted # <<>> =>
    LET mode == sorted[1].sort
        dflt == IF mode = "name" THEN "asc" ELSE "desc"
    IN /\ sorted[1].effective[Null] = dflt
       /\ sorted[1].by[Null] = sorted[1].by[dflt]
       /\ sorted[1].effective["asc"] = "asc"
       /\ sorted[1].effective["desc"] = "desc"

\* sorted by name with no direction: the order is the ascending one, and the
\* descending one differs from it
C12_Witness ==
  /\ sorted # <<>> /\ sorted[1].sort = "name"
  /\ sorted[1].effective[Null] = "asc"
  /\ sorted[1].by[Null] = sorted[1].by["asc"]
  /\ sorted[1].by[Null] # sorted[1].by["desc"]
  /\ sorted[1].by[Null] # sample

----------------------------------------------------------------------------
(* Claims about parseArgs (SpecArgs).                                       *)

\* the command line holds --omit and --include flags and their values only
OmitIncludeOnly(av) ==
  \A i \in 3..Len(av) : av[i].opt \in {"--omit", "--include", ""}

\* the types the flags of one option name
TypesNamed(av, name) ==
  UNION {Range(SplitValues(RawOf(av, i))) :
           i \in {j \in 3..Len(av) : av[j].opt = name}}

(* C13: after parseArgs has processed any sequence of --omit and --include  *)
(* flags, in any order and with any repetition, with or without the         *)
(* NODE_ENV=production default, no type is in both sets: include holds the  *)
(* types the --include flags name and omit holds the default and the types  *)
(* the --omit flags name, less every included type.                         *)
C13_IncludeOverridesOmit ==
  pc = "parsed" =>
    /\ args.omit \cap args.include = {}
    /\ OmitIncludeOnly(argv) =>
         /\ args.include = TypesNamed(argv, "--include")
         /\ args.omit =
              ((IF nodeEnv = "production" THEN {"dev"} ELSE {})
                 \cup TypesNamed(argv, "--omit")) \ args.include

\* under NODE_ENV=production: dev is included first and omitted twice after
\* that, once next to peer
C13_Witness ==
  /\ pc = "parsed" /\ nodeEnv = "production" /\ Len(argv) = 5
  /\ argv[3] = OptEq("--include", <<"dev">>)
  /\ argv[4] = OptEq("--omit", <<"peer", " dev", "">>)
  /\ argv[5] = OptEq("--omit", <<"dev">>)
  /\ args.omit = {"peer"} /\ args.include = {"dev"}

----------------------------------------------------------------------------
(* Claims about runNpmOutdated (SpecOutdated).                              *)

\* the trimmed stdout of the command is JSON
Parseable(run) == ~JSONParse(TrimmedString(run.stdout)).threw

----------------------------------------------------------------------------
(* Claims about collectLastUpdatedByPackage (SpecLastUpdated).              *)

\* the publish time that the stdout of one lookup carries for a package
PublishTimeIn(name, body) ==
  IF body = ViewStringText THEN "2024-12-01T10:00:00.000Z"
  ELSE IF body = ViewTagText THEN "2025-09-08T14:47:54.486Z"
  ELSE IF body = ViewModifiedText THEN "2026-01-01T00:00:00.000Z"
  ELSE IF body = ViewKeyedText /\ name = "alpha"
    THEN "2024-12-01T10:00:00.000Z"
  ELSE Null

(* C15: collectLastUpdatedByPackage returns a map with one entry for every  *)
(* requested name; a lookup that fails or prints unparsable output gives    *)
(* null for that package only, it does not throw, and the lookups of the    *)
(* other packages, before and after it, are run and recorded.               *)
C15_LookupFailuresStayLocal ==
  pc # "collectLastUpdatedByPackage" =>
    /\ pc = "returned"
    /\ DOMAIN lastUpdatedByPackage = Range(topDepNames)
    /\ execLog = [i \in DOMAIN topDepNames |-> ViewCommand(topDepNames[i])]
    /\ \A name \in Range(topDepNames) :
         lastUpdatedByPackage[name] =
           IF execRunner[name].stdout = NoOutput THEN Null
           ELSE PublishTimeIn(name, execRunner[name].stdout.body)

\* two lookups: the first one failed without output, the second one printed
\* the publish times
C15_Witness ==
  /\ pc = "returned" /\ Len(topDepNames) = 2
  /\ ~execRunner[topDepNames[1]].ok
  /\ execRunner[topDepNames[1]].stdout = NoOutput
  /\ execRunner[topDepNames[2]].stdout = Text(TRUE, ViewTagText)
  /\ lastUpdatedByPackage[topDepNames[1]] = Null
  /\ lastUpdatedByPackage[topDepNames[2]] = "2025-09-08T14:47:54.486Z"
  /\ Len(execLog) = 2

----------------------------------------------------------------------------
(* C16: collectOutdatedMarkers finds the outdated entries at every nesting  *)
(* depth, inside objects and inside arrays.  For every object with a string *)
(* `current` and a string `latest`, a string `wanted` or a null `latest`,   *)
(* the id set holds key(name, current), name being the entry's own `name`   *)
(* string or else the mapping key it was found under, and the path set      *)
(* holds its `location` resolved against the install root; nothing else is  *)
(* in either set.  An entry with no name to use (an empty one, or none and  *)
(* no mapping key) adds no id, one with no location adds no path.           *)

\* the value with everything below it, each with the key it sits under
RECURSIVE Parts(_, _)
Parts(value, hint) ==
  {[value |-> value, hint |-> hint]} \cup
    (IF value.t = "array"
       THEN UNION {Parts(value.e[i], Null) : i \in DOMAIN value.e}
     ELSE IF value.t = "object"
       THEN UNION {Parts(value.e[i][2], value.e[i][1]) : i \in DOMAIN value.e}
     ELSE {})

Field(part, key) ==
  LET at == {i \in DOMAIN part.value.e : part.value.e[i][1] = key} IN
  IF at = {} THEN [t |-> "absent"]
  ELSE part.value.e[CHOOSE i \in at : TRUE][2]

AString(v) == v.t = "string"

OutdatedEntries(json) ==
  {part \in Parts(json, Null) :
     /\ part.value.t = "object"
     /\ AString(Field(part, "current"))
     /\ \/ AString(Field(part, "latest"))
        \/ AString(Field(part, "wanted"))
        \/ Field(part, "latest") = JNull}

EntryName(part) ==
  IF AString(Field(part, "name")) THEN Field(part, "name").s ELSE part.hint

C16_EntriesFoundAtEveryDepth ==
  pc = "returned" =>
    LET found == IF outdatedJson = JUndef THEN {}
                 ELSE OutdatedEntries(outdatedJson) IN
    /\ outdatedMarkers.ids =
         {EntryName(part) \o "@" \o Field(part, "current").s :
            part \in {q \in found : EntryName(q) \notin {Null, ""}}}
    /\ outdatedMarkers.paths =
         {resolve2(Root, Field(part, "location")) :
            part \in {q \in found : /\ AString(Field(q, "location"))
                                    /\ Field(q, "location").p # <<>>}}

\* a named entry inside an array under a key, next to an entry named by its
\* key: both are found
C16_Witness ==
  /\ pc = "returned"
  /\ outdatedJson =
       Beside(Listed(
         JObj(<< <<"name", JStr("alpha")>>, <<"current", JStr("1.0.0")>>,
                 <<"wanted", JStr("1.1.0")>>,
                 <<"location",
                   JPath(FALSE, <<"node_modules", "alpha">>)>> >>)))
  /\ outdatedMarkers.ids = {"gamma@3.0.0", "alpha@1.0.0"}
  /\ outdatedMarkers.paths = {<<"r", "node_modules", "gamma">>,
                              <<"r", "node_modules", "alpha">>}

----------------------------------------------------------------------------
(* C17: collectAuditMarkers ranks severities low < moderate < high <        *)
(* critical with moderate = 1 and high = 2, records a rank for each         *)
(* vulnerable package name and for each of its node locations resolved      *)
(* against the root, keeps the highest rank seen for a name or a path that  *)
(* appears more than once, and skips missing or malformed entries.          *)

\* the entries of the report that are well formed
Flagged ==
  IF auditJson.t # "object" THEN {}
  ELSE LET at == {i \in DOMAIN auditJson.e :
                    auditJson.e[i][1] = "vulnerabilities"} IN
       IF at = {} THEN {}
       ELSE LET all == auditJson.e[CHOOSE i \in at : TRUE][2] IN
            IF all.t # "object" THEN {}
            ELSE {[key |-> all.e[i][1], value |-> all.e[i][2]] :
                    i \in {j \in DOMAIN all.e :
                      /\ all.e[j][2].t = "object"
                      /\ Field([value |-> all.e[j][2]], "severity")
                           \in {JStr("low"), JStr("moderate"), JStr("high"),
                                JStr("critical")}}}

RankOf(part) ==
  LET severity == Field(part, "severity").s IN
  CASE severity = "low" -> 0 [] severity = "moderate" -> 1
    [] severity = "high" -> 2 [] severity = "critical" -> 3

FlaggedName(part) ==
  IF AString(Field(part, "name")) THEN Field(part, "name").s ELSE part.key

FlaggedPaths(part) ==
  LET nodes == Field(part, "nodes") IN
  IF nodes.t # "array" THEN {}
  ELSE {Root \o nodes.e[i].p :
          i \in {j \in DOMAIN nodes.e : AString(nodes.e[j])}}

Highest(ranks) == CHOOSE r \in ranks : \A other \in ranks : other <= r

C17_AuditRanksKeepHighest ==
  pc = "returned" =>
    /\ severityRank(JStr("low"))[1] < severityRank(JStr("moderate"))[1]
    /\ severityRank(JStr("moderate")) = Some(1)
    /\ severityRank(JStr("high")) = Some(2)
    /\ severityRank(JStr("high"))[1] < severityRank(JStr("critical"))[1]
    /\ DOMAIN auditMarkers.packageSeverityRanks =
         {FlaggedName(part) : part \in Flagged}
    /\ \A name \in DOMAIN auditMarkers.packageSeverityRanks :
         auditMarkers.packageSeverityRanks[name] =
           Highest({RankOf(part) :
                      part \in {q \in Flagged : FlaggedName(q) = name}})
    /\ DOMAIN auditMarkers.pathSeverityRanks =
         UNION {FlaggedPaths(part) : part \in Flagged}
    /\ \A path \in DOMAIN auditMarkers.pathSeverityRanks :
         auditMarkers.pathSeverityRanks[path] =
           Highest({RankOf(part) :
                      part \in {q \in Flagged : path \in FlaggedPaths(q)}})

\* alpha is reported twice, first critical and then low: it stays critical,
\* and its install path is low
C17_Witness ==
  /\ pc = "returned"
  /\ auditJson =
       JObj(<< <<"vulnerabilities", JObj(<<
         <<"alpha", JObj(<< <<"severity", JStr("critical")>> >>)>>,
         <<"beta", JObj(<< <<"name", JStr("alpha")>>,
                           <<"severity", JStr("low")>>,
                           <<"nodes", JArr(<< JPath(FALSE,
                              <<"node_modules", "alpha">>) >>)>> >>)>>
       >>)>> >>)
  /\ auditMarkers.packageSeverityRanks = [name \in {"alpha"} |-> 3]
  /\ auditMarkers.pathSeverityRanks =
       [path \in {<<"r", "node_modules", "alpha">>} |-> 0]

----------------------------------------------------------------------------
(* C18: in collectSubtreeStats the audit rank of a subdependency comes from *)
(* the path table when its install path matches and from the package table  *)
(* only when the path does not match; the two are never merged, so a node   *)
(* whose path matches a lower rank than its package entry is reported with  *)
(* the path's rank.  auditSubdeps counts the flagged subdependencies and    *)
(* auditSeverity is the highest of the ranks so chosen.                     *)

\* the subdependencies of a call: what it visited below the top-level node
Subdependencies(stats) ==
  {i \in DOMAIN stats.visited : stats.visited[i][3] > 0}

PathOfVisit(stats, i) == tree.nodes[stats.visited[i][2]].path

PathFlagged(stats, i) ==
  PathOfVisit(stats, i) \in DOMAIN auditMarkers.pathSeverityRanks

PackageFlagged(stats, i) ==
  stats.visited[i][1] \in DOMAIN auditMarkers.packageSeverityRanks

ChosenRank(stats, i) ==
  IF PathFlagged(stats, i)
    THEN auditMarkers.pathSeverityRanks[PathOfVisit(stats, i)]
    ELSE auditMarkers.packageSeverityRanks[stats.visited[i][1]]

RankName(rank) ==
  CASE rank = 0 -> "low" [] rank = 1 -> "moderate" [] rank = 2 -> "high"
    [] rank = 3 -> "critical"

----------------------------------------------------------------------------
(* C19: across the collectSubtreeStats and collectAggregateApproxBytes      *)
(* calls of a run, which share one size cache, each install path is scanned *)
(* on the filesystem at most once; a later request for it gets the cached   *)
(* value without touching the filesystem, also when that value is 0.        *)

\* the calls made so far, in order: the cache each started from and its log
CoreCalls ==
  [i \in DOMAIN statsLog |-> [before |-> statsLog[i].before,
                              log |-> statsLog[i].log]]
  \o [i \in DOMAIN aggregateLog |-> [before |-> aggregateLog[i].before,
                                     log |-> aggregateLog[i].log]]

\* no path is scanned twice, and a path the cache held when a call began is
\* billed at the cached value without a scan
ScannedOnce(calls) ==
  /\ \A k, l \in DOMAIN calls :
       \A i \in DOMAIN calls[k].log.scans, j \in DOMAIN calls[l].log.scans :
         (k # l \/ i # j) => calls[k].log.scans[i] # calls[l].log.scans[j]
  /\ \A k \in DOMAIN calls :
       \A j \in DOMAIN calls[k].log.billed :
         LET path == calls[k].log.billed[j][2] IN
         path \in DOMAIN calls[k].before =>
           /\ path \notin Range(calls[k].log.scans)
           /\ calls[k].log.billed[j][3] = calls[k].before[path]

\* checked when main is done: the logs then hold every call of the run
C19_EachPathScannedOnce == pc = "done" => ScannedOnce(CoreCalls)

\* a path first sized 0 by a subtree walk is asked for again by the aggregate
C19_Witness ==
  /\ pc = "done"
  /\ \E path \in DOMAIN pathSizeCache :
       /\ pathSizeCache[path] = 0
       /\ path \in Range(statsLog[1].log.scans)
       /\ \E j \in DOMAIN aggregateLog[1].log.billed :
            aggregateLog[1].log.billed[j][2] = path

----------------------------------------------------------------------------
(* C20: the aggregation core (collectSubtreeStats,                          *)
(* collectAggregateApproxBytes, collectOutdatedMarkers, isOutdatedNode)     *)
(* never throws for any shape of its input data: a tree that is null or     *)
(* lacks `dependencies`, a node that is null, a node without version, path  *)
(* or dependencies and a non-object side dataset all yield zero or null     *)
(* defaults instead of an exception.                                        *)
C20_CoreNeverThrows ==
  /\ pc # "threw"
  /\ \A i \in DOMAIN coreOutcome :
       /\ ~coreOutcome[i].threw
       /\ (coreCall.fn = "collectAggregateApproxBytes"
             /\ coreCall.treeIs # "object") => coreOutcome[i].value = Some(0)
       /\ (coreCall.fn = "collectSubtreeStats" /\ coreCall.nodeIs = "null") =>
            coreOutcome[i].value =
              [subdeps |-> 0, outdatedSubdeps |-> 0, approxBytes |-> 0]
       /\ (coreCall.fn = "collectOutdatedMarkers"
             /\ outdatedJson.t \notin {"object", "array"}) =>
            coreOutcome[i].value = NoMarkers

----------------------------------------------------------------------------
(* C21 *)

\* what npm wrote to the capture file, when the file could be opened
Captured == IF execRunner.ls.open THEN execRunner.ls.stdout ELSE NoOutput

Parses(file) == file # NoOutput /\ ~JSONParse(file.body).threw

ExitedIn(fn) == pc = "exited" /\ ls.exitedIn = fn

\* runNpmLs of C21: a parsed tree is returned exactly when the captured
\* stdout parses, after a successful and after a failing npm alike, and the
\* process is ended with code 1 exactly when it does not parse
LsReturnsWhatParses ==
  /\ pc = "returned" =>
       /\ Parses(Captured)
       /\ ls.result = Some(JSONParse(Captured.body).value)
  /\ ExitedIn("runNpmLs") => ~Parses(Captured) /\ ls.exit = Some(1)

\* C21 (as amended): runNpmLs returns the parsed tree whenever the captured
\* stdout of npm ls is parseable JSON, whether npm succeeded or failed, and
\* ends the process with exit code 1 exactly when no parseable output was
\* captured; loadPkgJson ends the process with exit code 1 exactly when
\* package.json is missing, unparsable, or parses to a falsy value (null, an
\* empty string), and otherwise returns the parsed value.
C21_LsAndManifestOutcomes ==
  /\ LsReturnsWhatParses
  /\ ExitedIn("loadPkgJson") =>
       /\ ~Parses(manifest) \/ Falsy(JSONParse(manifest.body).value)
       /\ ls.exit = Some(1)
  /\ (pc # "loadPkgJson" /\ ~ExitedIn("loadPkgJson")) =>
       /\ Parses(manifest) /\ ~Falsy(JSONParse(manifest.body).value)
       /\ ls.pkg = JSONParse(manifest.body).value

\* a failing npm whose output parses: the tree is salvaged and returned
C21_Witness ==
  /\ pc = "returned" /\ ~execRunner.ls.ok
  /\ ls.result = Some(LsTree)
  /\ manifest = Text(FALSE, PkgText)

\* C21 (as stated): the same, with loadPkgJson ending the process exactly
\* when package.json is missing or unparsable.
C21_ManifestExitOnlyWhenUnparsable ==
  /\ LsReturnsWhatParses
  /\ ExitedIn("loadPkgJson") => ~Parses(manifest)
  /\ (pc # "loadPkgJson" /\ ~ExitedIn("loadPkgJson")) => Parses(manifest)

----------------------------------------------------------------------------
(* C26 *)

\* runNpmLs has ended: it returned, or it ended the process
LsEnded == pc = "returned" \/ ExitedIn("runNpmLs")

\* C26: on every way runNpmLs can end (tree returned after success, tree
\* salvaged after a failing npm, process exit on unparseable output) the
\* capture directory it created has been removed and the stdout file
\* descriptor it opened has been closed.
C26_CaptureCleanedUpOnEveryEnd ==
  LsEnded => ls.captureDir = "removed" /\ ls.descriptor # "open"

----------------------------------------------------------------------------
(* C22 *)

ReverseSeq(q) == [i \in DOMAIN q |-> q[Len(q) + 1 - i]]

\* the same tree with the entries of every dependencies object, those of the
\* root included, in the opposite order: every stack is pushed, and so
\* popped, the other way round
OtherOrder(t) ==
  [dependencies |-> ReverseSeq(t.dependencies),
   nodes |-> [n \in DOMAIN t.nodes |->
                [t.nodes[n] EXCEPT !.dependencies = ReverseSeq(@)]]]

SameStats(record, stats) ==
  /\ record.subdeps = stats.subdeps
  /\ record.outdatedSubdeps =
       OutdatedField(outdatedCountsAvailable, stats.outdatedSubdeps)
  /\ record.approxBytes = stats.approxBytes

\* C22: the result of collectSubtreeStats (subdeps, outdatedSubdeps,
\* approxBytes) and of collectAggregateApproxBytes does not depend on the
\* traversal order: with the children of every node and the top-level names
\* pushed in the opposite order the results are the ones main got, also when
\* the same name@version occurs at several places with different children or
\* different install paths.
C22_ResultsIndependentOfOrder ==
  pc = "done" =>
    /\ \A i \in DOMAIN statsLog :
         Installed(i) =>
           SameStats(ResultOf(statsLog[i].name),
                     collectSubtreeStats(OtherOrder(tree), fs, statsLog[i].name,
                                         statsLog[i].node, EmptyMap,
                                         outdatedMarkers))
    /\ aggregateLog[1].total =
         collectAggregateApproxBytes(OtherOrder(tree), fs,
                                     ReverseSeq(topDepNames), EmptyMap).total

----------------------------------------------------------------------------
(* C23 *)

\* the iterations that found a new key
Expansions == {i \in DOMAIN walk.log : walk.log[i].expanded}

\* C23: the traversals of collectSubtreeStats and collectAggregateApproxBytes
\* terminate on every finite dependency graph, cyclic ones and ones in which
\* the same package appears under many ancestors included: the function
\* returns in the end, each identity key is expanded (size added, children
\* pushed) at most once, and an entry whose key was already visited is
\* skipped without its children being pushed.
C23_TraversalTerminates ==
  /\ [](/\ \A i, j \in Expansions : walk.log[i].id = walk.log[j].id => i = j
        /\ \A i \in DOMAIN walk.log :
             ~walk.log[i].expanded => walk.log[i].pushed = 0)
  /\ <>(pc = "returned")

\* a walk that returned after it met node 1 again on a cycle, and the key
\* shared@1.0.0 on both of its nodes
C23_Witness ==
  /\ pc = "returned"
  /\ \E i, j \in DOMAIN walk.log :
       /\ i < j /\ walk.log[i].node = 1 /\ walk.log[j].node = 1
       /\ ~walk.log[j].expanded
  /\ \E i, j \in DOMAIN walk.log :
       /\ walk.log[i].node = 2 /\ walk.log[j].node = 3

----------------------------------------------------------------------------
(* C24 *)

\* two records have the same primary key under a sort mode
PrimaryTied(mode, a, b) ==
  IF mode = "publish"
    THEN /\ Dated(a) /\ Dated(b)
         /\ getPublishTimestamp(a.lastUpdated) = getPublishTimestamp(b.lastUpdated)
  ELSE IF mode = "size" THEN a.approxBytes = b.approxBytes
  ELSE IF mode = "name" THEN a.name = b.name
  ELSE a.subdeps = b.subdeps

\* the keys that break a tie on the primary key, in the order they are asked
TieBreaks(mode) ==
  IF mode = "publish" THEN <<"subdeps", "approxBytes", "name">>
  ELSE IF mode = "size" THEN <<"subdeps", "name">>
  ELSE IF mode = "name" THEN <<"subdeps", "approxBytes">>
  ELSE <<"approxBytes", "name">>

\* a goes before b by one key: the larger count or size, the earlier name
GoesFirst(key, a, b) ==
  IF key = "subdeps" THEN a.subdeps > b.subdeps
  ELSE IF key = "approxBytes" THEN a.approxBytes > b.approxBytes
  ELSE localeCompare(a.name, b.name) < 0

RECURSIVE FirstByChain(_, _, _)
FirstByChain(chain, a, b) ==
  IF chain = <<>> THEN FALSE
  ELSE IF GoesFirst(chain[1], a, b) THEN TRUE
  ELSE IF GoesFirst(chain[1], b, a) THEN FALSE
  ELSE FirstByChain(Tail(chain), a, b)

TiedPairs(mode) ==
  {p \in (DOMAIN sample) \X (DOMAIN sample) :
     p[1] # p[2] /\ PrimaryTied(mode, sample[p[1]], sample[p[2]])}

\* C24: in getResultsComparator the direction applies to the primary sort
\* key only: records tied on the primary key compare the same in ascending
\* and in descending mode and come out, in both, in the order of the
\* tie-breaks (subdeps descending, approxBytes descending, name ascending,
\* as far as each appears in that key's chain), so that with a tie the
\* ascending order is not the reverse of the descending order.
C24_DirectionAppliesToPrimaryKeyOnly ==
  sorted # <<>> =>
    LET mode == sorted[1].sort IN
    /\ \A p \in TiedPairs(mode) :
         getResultsComparator(mode, "asc", sample[p[1]], sample[p[2]])
           = getResultsComparator(mode, "desc", sample[p[1]], sample[p[2]])
    /\ \A d \in {"asc", "desc"} :
         \A i, j \in DOMAIN sample :
           (i < j /\ PrimaryTied(mode, sorted[1].by[d][i], sorted[1].by[d][j]))
             => FirstByChain(TieBreaks(mode), sorted[1].by[d][i],
                             sorted[1].by[d][j])
    /\ TiedPairs(mode) # {} =>
         sorted[1].by["asc"] # Reverse(sorted[1].by["desc"])

\* sorted by subdeps: gamma and beta have the same subdeps and different
\* sizes, alpha has more subdeps; the larger of the two tied records comes
\* first in both directions
C24_Witness ==
  /\ sorted # <<>> /\ sorted[1].sort = "subdeps"
  /\ sample[1].subdeps = 0 /\ sample[2].subdeps = 0 /\ sample[3].subdeps = 1
  /\ sample[1].approxBytes = 0 /\ sample[2].approxBytes = 1
  /\ sorted[1].by["desc"] = <<sample[3], sample[2], sample[1]>>
  /\ sorted[1].by["asc"] = <<sample[2], sample[1], sample[3]>>

----------------------------------------------------------------------------
(* C25 *)

\* the positions of a command line that hold a flag: an element that was
\* taken as the value of the flag before it is none
RECURSIVE FlagPositions(_, _)
FlagPositions(av, i) ==
  IF i > Len(av) THEN <<>>
  ELSE <<i>> \o FlagPositions(av, IF av[i].eq \/ av[i] = Opt("--json")
                                    THEN i + 1 ELSE i + 2)

\* the values of the flags of one option, in the order of the command line
FlagValues(av, name) ==
  LET at == SelectSeq(FlagPositions(av, 3), LAMBDA i : av[i].opt = name)
  IN [k \in DOMAIN at |-> Join(RawOf(av, at[k]).parts)]

LegacyAliases(av) ==
  SelectSeq(FlagValues(av, "--sort"),
            LAMBDA v : v \in {"publish-asc", "publish-desc"})

DirectionOfAlias(v) == IF v = "publish-asc" THEN "asc" ELSE "desc"

\* C25: in parseArgs --sort=publish-asc and --sort=publish-desc select the
\* publish key and set the direction only when no direction has been set so
\* far: with an explicit --direction flag anywhere on the command line the
\* final direction is that of the (last) --direction flag, before or after
\* the alias; without one it is that of the first alias; and without any
\* --sort or --direction flag the result is sort = 'subdeps' with
\* direction = null.
C25_LegacyAliasYieldsToDirection ==
  pc = "parsed" =>
    LET sorts   == FlagValues(argv, "--sort")
        dirs    == FlagValues(argv, "--direction")
        aliases == LegacyAliases(argv)
    IN /\ args.sort = IF sorts = <<>> THEN "subdeps"
                      ELSE IF sorts[Len(sorts)] \in {"publish-asc", "publish-desc"}
                        THEN "publish"
                      ELSE sorts[Len(sorts)]
       /\ args.direction = IF dirs # <<>> THEN dirs[Len(dirs)]
                           ELSE IF aliases # <<>> THEN DirectionOfAlias(aliases[1])
                           ELSE Null

\* --direction=asc --sort=publish-desc: the alias selects the publish key and
\* leaves the direction that was given before it
C25_Witness ==
  /\ pc = "parsed" /\ Len(argv) = 4
  /\ argv[3] = OptEq("--direction", <<"asc">>)
  /\ argv[4] = OptEq("--sort", <<"publish-desc">>)
  /\ args.sort = "publish" /\ args.direction = "asc"

----------------------------------------------------------------------------
(* C27 *)

\* the installed files that hold bytes
InstalledFiles == {q \in DOMAIN fs : fs[q].kind = "file" /\ fs[q].size > 0}

\* how many of the sizes one traversal added contain the bytes of file q:
\* those of the install paths whose directory scan reaches q
TimesAdded(log, q) ==
  Cardinality({j \in DOMAIN log.billed :
                 /\ log.billed[j][2] # NoPath
                 /\ PlainBelow(fs, log.billed[j][2], q)})

\* C27: no installed file's bytes are added more than once to a top-level
\* dependency's approxBytes or to the aggregate total, also when a visited
\* package's install path lies inside another visited package's install
\* directory (a nested node_modules).
C27_NoFileAddedTwice ==
  \A q \in InstalledFiles :
    /\ \A i \in DOMAIN statsLog : TimesAdded(statsLog[i].log, q) <= 1
    /\ pc = "done" => TimesAdded(aggregateLog[1].log, q) <= 1

====
